---- MODULE Spec2Model ----
(***************************************************************************)
(* Versioned configuration store of entropic-dna-api: the in-memory        *)
(* backend (MemoryStore) and the relational backend (PostgresStore), both  *)
(* driven by the same sequence of Store calls.                             *)
(*                                                                         *)
(* Encoding of Go values:                                                  *)
(*   string ids        integers; 0 is the empty string "", uuid.New()      *)
(*                     yields -1, -2, ... (never a caller-chosen id),      *)
(*                     caller-chosen ids are 1..NumCallerIds               *)
(*   RFC3339 strings   integers (seconds); 0 is the empty string           *)
(*   *pb.GameDNA       an address into MemoryStore's heap (0 is nil)       *)
(*   error             the text of the error message up to the first ':'   *)
(*                                                                         *)
(* A record constructor names its fields in the order in which TLC keeps   *)
(* them (the order in which the names first occur in this module), so that *)
(* TLC never has to sort a record that two of its workers share.           *)
(***************************************************************************)
EXTENDS Integers, Sequences, FiniteSets, TLC

\* ---------------------------------------------------------------- bounds
MaxMutations == 3
MaxTime == 2
NumCallerIds == 1
NumGoroutines == 2
MaxFaults == 1
NumUnits == 2
MaxRuns == 4
MaxMigrateFaults == 2
MaxBoots == 2
MaxServed == 2

\* ---------------------------------------------------------------- errors
OK == "ok"
ErrConfigNotFound == "config not found"
ErrVersionNotFound == "version not found"
ErrConfigLocked == "config is locked"
ErrAlreadyLocked == "config is already locked"
ErrCreateFailed == "failed to create game DNA"
ErrUpdateFailed == "failed to update game DNA"
ErrSnapshotFailed == "failed to create version snapshot"
ErrCountFailed == "failed to count configs"
ErrListFailed == "failed to list game DNAs"
PanicSliceBounds == "panic: runtime error: slice bounds out of range"

\* The error kinds of the store contract, by message.
IsNotFound(e) == e \in {ErrConfigNotFound, ErrVersionNotFound}
IsLocked(e) == e = ErrConfigLocked
IsLockedOrConflict(e) == e \in {ErrConfigLocked, ErrAlreadyLocked}

\* ---------------------------------------------------------------- GameDNA
\* pb.GameDNA is modelled by the fields the store reads or writes: Genre
\* and Tags stand for its domain fields (a scalar one and a slice one).
DefaultVersion == "0.1.0"

\* What callers pass to Create and to Update: <<name, version, genre,
\* isLocked, checksum, tags>>, with the timestamps left empty, or the same
\* followed by <<createdAt, lastModified>>.
CreateTemplates ==
    { <<"alpha", "", "FPS", FALSE, "sumF", <<>> >>,
      <<"beta", "1.0.0", "RPG", FALSE, "sumR", <<"t">> >>,
      <<"alpha", "", "FPS", FALSE, "sumF", <<>>, MaxTime, 0>> }

UpdateTemplates ==
    { <<"beta", "1.0.0", "RPG", FALSE, "sumR", <<"t">> >>,
      <<"alpha", "0.1.0", "RPG", TRUE, "sumR", <<>> >>,
      <<"beta", "1.0.0", "RPG", FALSE, "sumR", <<"t">>, MaxTime, 0>> }

MkInput(id, tpl) ==
    [IsLocked |-> tpl[4], Id |-> id, Name |-> tpl[1],
     Version |-> tpl[2],
     CreatedAt |-> IF Len(tpl) > 6 THEN tpl[7] ELSE 0,
     LastModified |-> IF Len(tpl) > 6 THEN tpl[8] ELSE 0, CreatedBy |-> "alice",
     Checksum |-> tpl[5], Genre |-> tpl[3], Tags |-> tpl[6]]

CallerIds == 1..NumCallerIds
Actors == {"", "bob"}
CloneNames == {"beta"}
CloneActors == {"bob"}

\* --------------------------------------------------------- List arguments
\* storage.ListFilters and storage.Pagination.  Page and PageSize are int32:
\* Go's arithmetic on them wraps around.
MaxInt32 == 2147483647
MinInt32 == -MaxInt32 - 1

\* x + y in int32
AddInt32(x, y) ==
    IF x > 0 /\ y > MaxInt32 - x THEN (x - MaxInt32 - 1) + (y - MaxInt32 - 1)
    ELSE IF x < 0 /\ y < MinInt32 - x THEN (x + MaxInt32 + 1) + (y + MaxInt32 + 1)
    ELSE x + y

\* x - y in int32
SubInt32(x, y) ==
    IF y = MinInt32 THEN AddInt32(AddInt32(x, MaxInt32), 1) ELSE AddInt32(x, -y)

RECURSIVE MulNatInt32(_, _)
MulNatInt32(x, n) ==
    IF n = 0 THEN 0
    ELSE LET h == MulNatInt32(AddInt32(x, x), n \div 2)
         IN IF n % 2 = 1 THEN AddInt32(h, x) ELSE h

\* x * y in int32
MulInt32(x, y) ==
    IF y >= 0 THEN MulNatInt32(x, y)
    ELSE IF y = MinInt32 THEN (IF x % 2 = 0 THEN 0 ELSE MinInt32)
    ELSE SubInt32(0, MulNatInt32(x, -y))

\* Strings are sequences of one-character strings.
UpperCase == "ABCDEFGHIJKLMNOPQRSTUVWXYZ"
LowerCase == "abcdefghijklmnopqrstuvwxyz"

Rest(str) == SubSeq(str, 2, Len(str))

\* The lower-case letter of each upper-case letter.
LowerOf ==
    [c \in {SubSeq(UpperCase, i, i) : i \in 1..Len(UpperCase)} |->
        LET i == CHOOSE k \in 1..Len(UpperCase) : SubSeq(UpperCase, k, k) = c
        IN SubSeq(LowerCase, i, i)]

RECURSIVE ToLower(_)
\* strings.ToLower, and LOWER() of SQL, on ASCII text
ToLower(str) ==
    IF str = "" THEN ""
    ELSE LET c == SubSeq(str, 1, 1)
         IN (IF c \in DOMAIN LowerOf THEN LowerOf[c] ELSE c) \o ToLower(Rest(str))

\* strings.Contains
Contains(str, substr) ==
    \E i \in 1..(Len(str) - Len(substr) + 1) :
       SubSeq(str, i, i + Len(substr) - 1) = substr

RECURSIVE Like(_, _)
\* str LIKE pattern: % matches any run of characters, _ any one character,
\* and a backslash takes the next character literally.
Like(str, pattern) ==
    IF pattern = "" THEN str = ""
    ELSE LET c == SubSeq(pattern, 1, 1)
         IN IF c = "%"
            THEN \E k \in 0..Len(str) :
                    Like(SubSeq(str, k + 1, Len(str)), Rest(pattern))
            ELSE IF c = "_"
            THEN str # "" /\ Like(Rest(str), Rest(pattern))
            ELSE IF c = "\\" /\ Len(pattern) >= 2
            THEN /\ str # ""
                 /\ SubSeq(str, 1, 1) = SubSeq(pattern, 2, 2)
                 /\ Like(Rest(str), Rest(Rest(pattern)))
            ELSE /\ str # ""
                 /\ SubSeq(str, 1, 1) = c
                 /\ Like(Rest(str), Rest(pattern))

RECURSIVE EndsWithEscape(_)
\* The pattern ends in a backslash that escapes nothing: LIKE raises an error.
EndsWithEscape(pattern) ==
    IF pattern = "" THEN FALSE
    ELSE IF SubSeq(pattern, 1, 1) = "\\"
    THEN Len(pattern) = 1 \/ EndsWithEscape(Rest(Rest(pattern)))
    ELSE EndsWithEscape(Rest(pattern))

NoFilters == [Genre |-> "", Tags |-> <<>>, NameFilter |-> ""]

\* What callers pass to List: no filter, one on every field, or a name
\* filter holding a character that LIKE gives a meaning to.
ListFilterInputs ==
    { NoFilters,
      [Genre |-> "RPG", Tags |-> <<"t">>, NameFilter |-> "BET"],
      [Genre |-> "", Tags |-> <<>>, NameFilter |-> "L_H"] }

BigPageSize == 1073741824

PaginationInputs ==
    { [Page |-> 0, PageSize |-> 0],
      [Page |-> 1, PageSize |-> 2],
      [Page |-> 2, PageSize |-> 2],
      [Page |-> 3, PageSize |-> 2],
      [Page |-> 3, PageSize |-> BigPageSize] }

DefaultPageSize == 10
DefaultPage == 1

\* The orders in which the elements of S can come: sequences without repeats.
Orders(S) ==
    {o \in [1..Cardinality(S) -> S] :
        \A i, j \in 1..Cardinality(S) : i # j => o[i] # o[j]}

\* The elements of sequence q that satisfy Keep, in the order of q.
RECURSIVE SelectIn(_, _)
SelectIn(q, keep) ==
    IF q = <<>> THEN <<>>
    ELSE (IF Head(q) \in keep THEN <<Head(q)>> ELSE <<>>) \o SelectIn(Tail(q), keep)

HasAllTags(tags, wanted) ==
    \A i \in 1..Len(wanted) : \E j \in 1..Len(tags) : tags[j] = wanted[i]

\* mem, pg      the two stores
\* now          the wall clock, in seconds
\* uuidCount    how many uuids uuid.New() has handed out
\* mutations    how many calls have changed a store
\* last         the call that produced the state, and what it returned
\* published    history variable: per backend, the ids of the configs that a
\*              successful PublishVersion locked and no Delete removed since
\* calls        per goroutine, the store call it is in and the locals of it
\* audit        history variable of the runs that take calls apart
VARIABLES mem, pg, now, uuidCount, mutations, last, published, calls, audit,
          runner, boot

vars == <<mem, pg, now, uuidCount, mutations, last, published, calls, audit,
          runner, boot>>

\* ------------------------------------------------------------ MemoryStore
\* mem.heap     the GameDNA objects the store holds pointers to
\* mem.configs  map[string]*pb.GameDNA   (id -> address)
\* mem.versions map[string][]*VersionInfo (id -> snapshots, Data an address)

EmptyMap == [x \in {} |-> 0]

NewMemoryStore == [heap |-> <<>>, configs |-> EmptyMap, versions |-> EmptyMap]

Put(map, k, v) == [x \in (DOMAIN map) \cup {k} |-> IF x = k THEN v ELSE map[x]]

Remove(map, k) == [x \in (DOMAIN map) \ {k} |-> map[x]]

\* Mutant: the copy leaves out the id.
deepCopyGameDNA_DropsId(src) ==
    [IsLocked |-> src.IsLocked, Id |-> 0, Name |-> src.Name,
     Version |-> src.Version, CreatedAt |-> src.CreatedAt,
     LastModified |-> src.LastModified, CreatedBy |-> src.CreatedBy,
     Checksum |-> src.Checksum, Genre |-> src.Genre, Tags |-> src.Tags]

\* A fresh object holding a field-by-field copy of src.
deepCopyGameDNA(src) ==
    [IsLocked |-> src.IsLocked, Id |-> src.Id, Name |-> src.Name,
     Version |-> src.Version, CreatedAt |-> src.CreatedAt,
     LastModified |-> src.LastModified, CreatedBy |-> src.CreatedBy,
     Checksum |-> src.Checksum, Genre |-> src.Genre, Tags |-> src.Tags]

\* The result of a store call: the store afterwards, the error, and the
\* returned pointer (memory) or value (postgres).
Result(st, err, ret) == [st |-> st, err |-> err, ret |-> ret]

\* Mutant: the next number is the current length.
NextVersion_OffByOne(versions) == Len(versions)

\* nextVersion := int64(len(versions) + 1)
NextVersion(versions) == Len(versions) + 1

\* VersionNum of the snapshot taken at creation
FirstVersionNum == 1

\* Mutant: a Create under an id that is in use adds a snapshot to the
\* history that id has.
MemCreate_KeepsHistory(m, dna, uuid, t) ==
    LET d == [dna EXCEPT
                !.Id = IF dna.Id = 0 THEN uuid ELSE dna.Id,
                !.CreatedAt = IF dna.CreatedAt = 0 THEN t ELSE dna.CreatedAt,
                !.LastModified = IF dna.LastModified = 0 THEN t ELSE dna.LastModified,
                !.Version = IF dna.Version = "" THEN DefaultVersion ELSE dna.Version]
        a == Len(m.heap) + 1
        old == IF d.Id \in DOMAIN m.versions THEN m.versions[d.Id] ELSE <<>>
    IN Result([heap |-> m.heap \o <<d, deepCopyGameDNA(d)>>,
               configs |-> Put(m.configs, d.Id, a),
               versions |-> Put(m.versions, d.Id,
                   Append(old,
                      [CreatedAt |-> d.CreatedAt, CreatedBy |-> d.CreatedBy,
                       Checksum |-> d.Checksum, VersionNum |-> NextVersion(old),
                       Data |-> a + 1]))],
              OK, a)

\* dna is the caller's object; the map keeps the pointer to it (address a)
\* and the snapshot points to a deep copy (address a + 1).
MemCreate(m, dna, uuid, t) ==
    LET d == [dna EXCEPT
                !.Id = IF dna.Id = 0 THEN uuid ELSE dna.Id,
                !.CreatedAt = IF dna.CreatedAt = 0 THEN t ELSE dna.CreatedAt,
                !.LastModified = IF dna.LastModified = 0 THEN t ELSE dna.LastModified,
                !.Version = IF dna.Version = "" THEN DefaultVersion ELSE dna.Version]
        a == Len(m.heap) + 1
    IN Result([heap |-> m.heap \o <<d, deepCopyGameDNA(d)>>,
               configs |-> Put(m.configs, d.Id, a),
               versions |-> Put(m.versions, d.Id,
                   << [CreatedAt |-> d.CreatedAt, CreatedBy |-> d.CreatedBy,
                       Checksum |-> d.Checksum, VersionNum |-> FirstVersionNum,
                       Data |-> a + 1] >>)],
              OK, a)

MemRead(m, id) ==
    IF id \notin DOMAIN m.configs
    THEN Result(m, ErrConfigNotFound, 0)
    ELSE Result(m, OK, m.configs[id])

\* Mutant: an Update of an id that is not in the store stores it.
MemUpdate_Upserts(m, dna, t) ==
    IF dna.Id \in DOMAIN m.configs /\ m.heap[m.configs[dna.Id]].IsLocked
    THEN Result(m, ErrConfigLocked, 0)
    ELSE
    LET d == [dna EXCEPT !.LastModified = t]
        a == Len(m.heap) + 1
        old == IF d.Id \in DOMAIN m.versions THEN m.versions[d.Id] ELSE <<>>
    IN Result([heap |-> m.heap \o <<d, deepCopyGameDNA(d)>>,
               configs |-> Put(m.configs, d.Id, a),
               versions |-> Put(m.versions, d.Id,
                   Append(old,
                     [CreatedAt |-> d.LastModified, CreatedBy |-> d.CreatedBy,
                      Checksum |-> d.Checksum, VersionNum |-> NextVersion(old),
                      Data |-> a + 1]))],
              OK, a)

MemUpdate(m, dna, t) ==
    IF dna.Id \notin DOMAIN m.configs
    THEN Result(m, ErrConfigNotFound, 0)
    ELSE IF m.heap[m.configs[dna.Id]].IsLocked
    THEN Result(m, ErrConfigLocked, 0)
    ELSE
    LET d == [dna EXCEPT !.LastModified = t]
        a == Len(m.heap) + 1
        nextVersion == NextVersion(m.versions[d.Id])
    IN Result([heap |-> m.heap \o <<d, deepCopyGameDNA(d)>>,
               configs |-> Put(m.configs, d.Id, a),
               versions |-> Put(m.versions, d.Id,
                   Append(m.versions[d.Id],
                     [CreatedAt |-> d.LastModified, CreatedBy |-> d.CreatedBy,
                      Checksum |-> d.Checksum, VersionNum |-> nextVersion,
                      Data |-> a + 1]))],
              OK, a)

MemDelete_KeepsHistory(m, id) ==
    IF id \notin DOMAIN m.configs
    THEN Result(m, ErrConfigNotFound, 0)
    ELSE Result([heap |-> m.heap, configs |-> Remove(m.configs, id),
                 versions |-> m.versions], OK, 0)

MemDelete(m, id) ==
    IF id \notin DOMAIN m.configs
    THEN Result(m, ErrConfigNotFound, 0)
    ELSE Result([heap |-> m.heap, configs |-> Remove(m.configs, id),
                 versions |-> Remove(m.versions, id)], OK, 0)

\* order is the order in which range m.configs yields the keys: Go leaves
\* it unspecified.  Returns the addresses of the page and the total.
MemList(m, filters, pagination, order) ==
    LET nameFilter == ToLower(filters.NameFilter)
        matches == {id \in DOMAIN m.configs :
                      LET dna == m.heap[m.configs[id]]
                      IN /\ ~(filters.Genre # "" /\ dna.Genre # filters.Genre)
                         /\ ~(/\ filters.NameFilter # ""
                              /\ ~Contains(ToLower(dna.Name), nameFilter))
                         /\ ~(Len(filters.Tags) > 0
                              /\ ~HasAllTags(dna.Tags, filters.Tags))}
        ids == SelectIn(order, matches)
        result == [i \in 1..Len(ids) |-> m.configs[ids[i]]]
        total == Len(result)
        pageSize == IF pagination.PageSize = 0 THEN DefaultPageSize
                    ELSE pagination.PageSize
        page == IF pagination.Page = 0 THEN DefaultPage ELSE pagination.Page
        start == MulInt32(SubInt32(page, 1), pageSize)
        end0 == AddInt32(start, pageSize)
        end == IF end0 > Len(result) THEN Len(result) ELSE end0
    IN IF start >= Len(result) THEN Result(m, OK, <<<<>>, total>>)
       ELSE IF start < 0 \/ end < start
       THEN Result(m, PanicSliceBounds, <<<<>>, 0>>)
       ELSE Result(m, OK, <<SubSeq(result, start + 1, end), total>>)

MemGetVersionHistory(m, configID) ==
    IF configID \notin DOMAIN m.versions
    THEN Result(m, ErrConfigNotFound, <<>>)
    ELSE Result(m, OK, m.versions[configID])

\* Mutant: a version number that is not in the history stands for the
\* newest snapshot.
MemRollbackToVersion_Latest(m, configID, versionNum, actor, t) ==
    IF configID \notin DOMAIN m.versions
    THEN Result(m, ErrConfigNotFound, 0)
    ELSE
    LET versions == m.versions[configID]
        hits == {i \in 1..Len(versions) : versions[i].VersionNum = versionNum}
        targetVersion == versions[IF hits = {} THEN Len(versions)
                                  ELSE CHOOSE i \in hits : \A j \in hits : i <= j]
        copy == deepCopyGameDNA(m.heap[targetVersion.Data])
        rolledBack == [copy EXCEPT
                         !.LastModified = t,
                         !.CreatedBy = IF actor # "" THEN actor ELSE @]
        a == Len(m.heap) + 1
        nextVersion == NextVersion(versions)
    IN Result([heap |-> m.heap \o <<rolledBack, deepCopyGameDNA(rolledBack)>>,
               configs |-> Put(m.configs, configID, a),
               versions |-> Put(m.versions, configID,
                   Append(versions,
                     [CreatedAt |-> rolledBack.LastModified, CreatedBy |-> actor,
                      Checksum |-> rolledBack.Checksum, VersionNum |-> nextVersion,
                      Data |-> a + 1]))],
              OK, a)

MemRollbackToVersion(m, configID, versionNum, actor, t) ==
    IF configID \notin DOMAIN m.versions
    THEN Result(m, ErrConfigNotFound, 0)
    ELSE
    LET versions == m.versions[configID]
        hits == {i \in 1..Len(versions) : versions[i].VersionNum = versionNum}
    IN IF hits = {}
       THEN Result(m, ErrVersionNotFound, 0)
       ELSE
       LET targetVersion == versions[CHOOSE i \in hits : \A j \in hits : i <= j]
           copy == deepCopyGameDNA(m.heap[targetVersion.Data])
           rolledBack == [copy EXCEPT
                            !.LastModified = t,
                            !.CreatedBy = IF actor # "" THEN actor ELSE @]
           a == Len(m.heap) + 1
           nextVersion == NextVersion(versions)
       IN Result([heap |-> m.heap \o <<rolledBack, deepCopyGameDNA(rolledBack)>>,
                  configs |-> Put(m.configs, configID, a),
                  versions |-> Put(m.versions, configID,
                      Append(versions,
                        [CreatedAt |-> rolledBack.LastModified, CreatedBy |-> actor,
                         Checksum |-> rolledBack.Checksum, VersionNum |-> nextVersion,
                         Data |-> a + 1]))],
                 OK, a)

\* Mutant: publishing again is accepted and stamps the config again.
MemPublishVersion_Idempotent(m, configID, actor, t) ==
    IF configID \notin DOMAIN m.configs
    THEN Result(m, ErrConfigNotFound, 0)
    ELSE
    LET a == m.configs[configID]
    IN Result([m EXCEPT !.heap[a] =
                  [@ EXCEPT !.IsLocked = TRUE,
                            !.LastModified = t,
                            !.CreatedBy = IF actor # "" THEN actor ELSE @]],
              OK, a)

\* Writes through the pointer held in the map: the object is changed in place.
MemPublishVersion(m, configID, actor, t) ==
    IF configID \notin DOMAIN m.configs
    THEN Result(m, ErrConfigNotFound, 0)
    ELSE
    LET a == m.configs[configID]
    IN IF m.heap[a].IsLocked
       THEN Result(m, ErrAlreadyLocked, 0)
       ELSE Result([m EXCEPT !.heap[a] =
                       [@ EXCEPT !.IsLocked = TRUE,
                                 !.LastModified = t,
                                 !.CreatedBy = IF actor # "" THEN actor ELSE @]],
                   OK, a)

\* Mutant: the clone is the source's own object, renamed, stored under a
\* second key.
MemClone_SharesObject(m, id, newName, actor, uuid, t) ==
    IF id \notin DOMAIN m.configs
    THEN Result(m, ErrConfigNotFound, 0)
    ELSE
    LET a == m.configs[id]
        original == m.heap[a]
        cloned == [original EXCEPT !.Id = uuid, !.Name = newName,
                                   !.CreatedAt = t, !.LastModified = t,
                                   !.CreatedBy = actor, !.Checksum = "",
                                   !.IsLocked = FALSE]
    IN Result([heap |-> [m.heap EXCEPT ![a] = cloned],
               configs |-> Put(m.configs, cloned.Id, a),
               versions |-> Put(m.versions, cloned.Id,
                   << [CreatedAt |-> cloned.CreatedAt, CreatedBy |-> actor,
                       Checksum |-> cloned.Checksum, VersionNum |-> FirstVersionNum,
                       Data |-> a] >>)],
              OK, a)

\* Mutant: the clone takes over the lock of the source.
MemClone_KeepsLock(m, id, newName, actor, uuid, t) ==
    IF id \notin DOMAIN m.configs
    THEN Result(m, ErrConfigNotFound, 0)
    ELSE
    LET original == m.heap[m.configs[id]]
        cloned == [IsLocked |-> original.IsLocked, Id |-> uuid, Name |-> newName,
                   Version |-> original.Version, CreatedAt |-> t, LastModified |-> t,
                   CreatedBy |-> actor, Checksum |-> "",
                   Genre |-> original.Genre, Tags |-> original.Tags]
        a == Len(m.heap) + 1
    IN Result([heap |-> Append(m.heap, cloned),
               configs |-> Put(m.configs, cloned.Id, a),
               versions |-> Put(m.versions, cloned.Id,
                   << [CreatedAt |-> cloned.CreatedAt, CreatedBy |-> actor,
                       Checksum |-> cloned.Checksum, VersionNum |-> FirstVersionNum,
                       Data |-> a] >>)],
              OK, a)

\* The version-1 snapshot of a clone points to the cloned object itself.
MemClone(m, id, newName, actor, uuid, t) ==
    IF id \notin DOMAIN m.configs
    THEN Result(m, ErrConfigNotFound, 0)
    ELSE
    LET original == m.heap[m.configs[id]]
        cloned == [IsLocked |-> FALSE, Id |-> uuid, Name |-> newName,
                   Version |-> original.Version, CreatedAt |-> t, LastModified |-> t,
                   CreatedBy |-> actor, Checksum |-> "",
                   Genre |-> original.Genre, Tags |-> original.Tags]
        a == Len(m.heap) + 1
    IN Result([heap |-> Append(m.heap, cloned),
               configs |-> Put(m.configs, cloned.Id, a),
               versions |-> Put(m.versions, cloned.Id,
                   << [CreatedAt |-> cloned.CreatedAt, CreatedBy |-> actor,
                       Checksum |-> cloned.Checksum, VersionNum |-> FirstVersionNum,
                       Data |-> a] >>)],
              OK, a)

\* What a reader of the memory store sees: objects read through the pointers.
MemConfig(m, id) == m.heap[m.configs[id]]

MemHistory(m, id) ==
    [i \in 1..Len(m.versions[id]) |->
        [CreatedAt |-> m.versions[id][i].CreatedAt,
         CreatedBy |-> m.versions[id][i].CreatedBy,
         Checksum |-> m.versions[id][i].Checksum,
         VersionNum |-> m.versions[id][i].VersionNum,
         Data |-> m.heap[m.versions[id][i].Data]]]

\* ---------------------------------------------------------- PostgresStore
\* pg.configs   table game_dna_configs, keyed by the primary key id
\* pg.versions  table game_dna_versions, a set of rows
\* pg.serial    the SERIAL sequence of game_dna_versions.id

NewPostgresStore == [configs |-> EmptyMap, versions |-> {}, serial |-> 0]

Fields == {"Id", "Name", "Version", "CreatedAt", "LastModified", "CreatedBy",
           "Checksum", "IsLocked", "Genre", "Tags"}

ZeroGameDNA ==
    [IsLocked |-> FALSE, Id |-> 0, Name |-> "", Version |-> "", CreatedAt |-> 0,
     LastModified |-> 0, CreatedBy |-> "", Checksum |-> "", Genre |-> "",
     Tags |-> <<>>]

\* json.Marshal of a pb.GameDNA: an object holding the fields that are not
\* zero (the generated struct tags carry omitempty).
Marshal(dna) == [f \in {g \in Fields : dna[g] # ZeroGameDNA[g]} |-> dna[f]]

\* json.Unmarshal into a zero pb.GameDNA: absent keys stay zero.
Unmarshal(dataJSON) ==
    [f \in Fields |-> IF f \in DOMAIN dataJSON THEN dataJSON[f] ELSE ZeroGameDNA[f]]

\* time.Parse(time.RFC3339, s) with the error dropped: the empty string
\* gives the zero time.
ParseTime(s) == s

\* time.Time.Format(time.RFC3339)
FormatTime(tm) == tm

\* Mutant: the table has no UNIQUE (name, version).
InsertConfig_NoUnique(db, row) ==
    IF row.id \in DOMAIN db.configs
    THEN [ok |-> FALSE, db |-> db]
    ELSE [ok |-> TRUE, db |-> [db EXCEPT !.configs = Put(db.configs, row.id, row)]]

\* INSERT INTO game_dna_configs: PRIMARY KEY (id), UNIQUE (name, version).
InsertConfig(db, row) ==
    IF row.id \in DOMAIN db.configs
       \/ \E k \in DOMAIN db.configs :
             db.configs[k].name = row.name /\ db.configs[k].version = row.version
    THEN [ok |-> FALSE, db |-> db]
    ELSE [ok |-> TRUE, db |-> [db EXCEPT !.configs = Put(db.configs, row.id, row)]]

\* INSERT INTO game_dna_versions: REFERENCES game_dna_configs(id),
\* UNIQUE (config_id, version_num).  The sequence advances even on failure.
InsertVersion(db, row) ==
    IF row.config_id \notin DOMAIN db.configs
       \/ \E v \in db.versions :
             v.config_id = row.config_id /\ v.version_num = row.version_num
    THEN [ok |-> FALSE, db |-> [db EXCEPT !.serial = @ + 1]]
    ELSE [ok |-> TRUE,
          db |-> [db EXCEPT !.serial = @ + 1,
                            !.versions = @ \cup {[row EXCEPT !.id = db.serial + 1]}]]

\* UPDATE game_dna_configs SET data, checksum, updated_at, tags, name, version
\* WHERE id: is_locked, created_at and created_by keep their values.
UpdateConfigRow(db, id, dataJSON, checksum, updatedAt, tags, name, version) ==
    IF id \notin DOMAIN db.configs
    THEN [ok |-> TRUE, db |-> db]
    ELSE IF \E k \in DOMAIN db.configs \ {id} :
               db.configs[k].name = name /\ db.configs[k].version = version
    THEN [ok |-> FALSE, db |-> db]
    ELSE [ok |-> TRUE,
          db |-> [db EXCEPT !.configs[id] =
                     [@ EXCEPT !.data = dataJSON, !.checksum = checksum,
                               !.updated_at = updatedAt, !.tags = tags,
                               !.name = name, !.version = version]]]

\* SELECT COALESCE(MAX(version_num), 0) FROM game_dna_versions WHERE config_id
MaxVersionNum(db, id) ==
    LET nums == {v.version_num : v \in {w \in db.versions : w.config_id = id}}
    IN IF nums = {} THEN 0 ELSE CHOOSE n \in nums : \A k \in nums : k <= n

PgCreate(db, dna, uuid, t) ==
    LET d == [dna EXCEPT
                !.Id = IF dna.Id = 0 THEN uuid ELSE dna.Id,
                !.CreatedAt = IF dna.CreatedAt = 0 THEN t ELSE dna.CreatedAt,
                !.LastModified = IF dna.LastModified = 0 THEN t ELSE dna.LastModified,
                !.Version = IF dna.Version = "" THEN DefaultVersion ELSE dna.Version]
        dataJSON == Marshal(d)
        createdAt == ParseTime(d.CreatedAt)
        updatedAt == ParseTime(d.LastModified)
        ins == InsertConfig(db,
                 [id |-> d.Id, tags |-> d.Tags, name |-> d.Name,
                  version |-> d.Version, checksum |-> d.Checksum,
                  data |-> dataJSON, updated_at |-> updatedAt,
                  is_locked |-> d.IsLocked, created_at |-> createdAt,
                  created_by |-> d.CreatedBy])
        snap == InsertVersion(ins.db,
                 [id |-> 0, config_id |-> d.Id, version_num |-> 1,
                  checksum |-> d.Checksum, data |-> dataJSON,
                  created_at |-> createdAt, created_by |-> d.CreatedBy])
    IN IF ~ins.ok THEN Result(db, ErrCreateFailed, <<>>)
       ELSE IF ~snap.ok THEN Result(snap.db, ErrSnapshotFailed, <<>>)
       ELSE Result(snap.db, OK, <<d>>)

PgRead(db, id) ==
    IF id \notin DOMAIN db.configs
    THEN Result(db, ErrConfigNotFound, <<>>)
    ELSE Result(db, OK, <<Unmarshal(db.configs[id].data)>>)

\* Mutant: the new payload is merged into the stored one, so a key the new
\* payload lacks keeps its stored value.
PgUpdate_Merges(db, dna, t) ==
    IF dna.Id \notin DOMAIN db.configs
    THEN Result(db, ErrConfigNotFound, <<>>)
    ELSE IF db.configs[dna.Id].is_locked
    THEN Result(db, ErrConfigLocked, <<>>)
    ELSE
    LET d == [dna EXCEPT !.LastModified = t]
        old == db.configs[dna.Id].data
        new == Marshal(d)
        dataJSON == [f \in DOMAIN old \cup DOMAIN new |->
                        IF f \in DOMAIN new THEN new[f] ELSE old[f]]
        updatedAt == ParseTime(d.LastModified)
        upd == UpdateConfigRow(db, d.Id, dataJSON, d.Checksum, updatedAt,
                               d.Tags, d.Name, d.Version)
        nextVersion == MaxVersionNum(upd.db, d.Id) + 1
        snap == InsertVersion(upd.db,
                 [id |-> 0, config_id |-> d.Id, version_num |-> nextVersion,
                  checksum |-> d.Checksum, data |-> dataJSON,
                  created_at |-> updatedAt, created_by |-> d.CreatedBy])
    IN IF ~upd.ok THEN Result(db, ErrUpdateFailed, <<>>)
       ELSE IF ~snap.ok THEN Result(snap.db, ErrSnapshotFailed, <<>>)
       ELSE Result(snap.db, OK, <<d>>)

PgUpdate(db, dna, t) ==
    IF dna.Id \notin DOMAIN db.configs
    THEN Result(db, ErrConfigNotFound, <<>>)
    ELSE IF db.configs[dna.Id].is_locked
    THEN Result(db, ErrConfigLocked, <<>>)
    ELSE
    LET d == [dna EXCEPT !.LastModified = t]
        dataJSON == Marshal(d)
        updatedAt == ParseTime(d.LastModified)
        upd == UpdateConfigRow(db, d.Id, dataJSON, d.Checksum, updatedAt,
                               d.Tags, d.Name, d.Version)
        nextVersion == MaxVersionNum(upd.db, d.Id) + 1
        snap == InsertVersion(upd.db,
                 [id |-> 0, config_id |-> d.Id, version_num |-> nextVersion,
                  checksum |-> d.Checksum, data |-> dataJSON,
                  created_at |-> updatedAt, created_by |-> d.CreatedBy])
    IN IF ~upd.ok THEN Result(db, ErrUpdateFailed, <<>>)
       ELSE IF ~snap.ok THEN Result(snap.db, ErrSnapshotFailed, <<>>)
       ELSE Result(snap.db, OK, <<d>>)

\* DELETE FROM game_dna_configs WHERE id; ON DELETE CASCADE removes the
\* versions of the config.
PgDelete(db, id) ==
    IF id \notin DOMAIN db.configs
    THEN Result(db, ErrConfigNotFound, <<>>)
    ELSE Result([db EXCEPT !.configs = Remove(db.configs, id),
                           !.versions = {v \in @ : v.config_id # id}],
                OK, <<>>)

\* order is the order in which the query yields the rows of the table; it
\* is one that ORDER BY created_at DESC allows.
PgOrderAllowed(db, order) ==
    \A i, j \in 1..Len(order) :
       i < j => db.configs[order[i]].created_at >= db.configs[order[j]].created_at

PgList(db, filters, pagination, order) ==
    LET pageSize == IF pagination.PageSize = 0 THEN DefaultPageSize
                    ELSE pagination.PageSize
        page == IF pagination.Page = 0 THEN DefaultPage ELSE pagination.Page
        pattern == "%" \o filters.NameFilter \o "%"
        lowerPattern == ToLower(pattern)
        matches == {id \in DOMAIN db.configs :
                      LET row == db.configs[id]
                      IN /\ filters.Genre # "" =>
                              /\ "Genre" \in DOMAIN row.data
                              /\ row.data.Genre = filters.Genre
                         /\ filters.NameFilter # "" =>
                              Like(ToLower(row.name), lowerPattern)
                         /\ Len(filters.Tags) > 0 =>
                              HasAllTags(row.tags, filters.Tags)}
        total == Cardinality(matches)
        offset == MulInt32(SubInt32(page, 1), pageSize)
        ids == SelectIn(order, matches)
        from == IF offset > Len(ids) THEN Len(ids) ELSE offset
        upto == IF pageSize > Len(ids) - from THEN Len(ids) ELSE from + pageSize
        rows == SubSeq(ids, from + 1, upto)
    IN IF filters.NameFilter # "" /\ EndsWithEscape(pattern)
       THEN Result(db, ErrCountFailed, <<<<>>, 0>>)
       ELSE IF pageSize < 0 \/ offset < 0
       THEN Result(db, ErrListFailed, <<<<>>, 0>>)
       ELSE Result(db, OK,
                   <<[i \in 1..Len(rows) |-> Unmarshal(db.configs[rows[i]].data)],
                     total>>)

\* ORDER BY version_num DESC; never fails on an unknown config.
PgGetVersionHistory(db, configID) ==
    LET SortDesc[S \in SUBSET db.versions] ==
            IF S = {} THEN <<>>
            ELSE LET top == CHOOSE v \in S : \A w \in S : w.version_num <= v.version_num
                 IN <<[CreatedAt |-> FormatTime(top.created_at), CreatedBy |-> top.created_by,
                       Checksum |-> top.checksum,
                       VersionNum |-> top.version_num,
                       Data |-> Unmarshal(top.data)]>> \o SortDesc[S \ {top}]
    IN Result(db, OK, SortDesc[{v \in db.versions : v.config_id = configID}])

\* Mutant: the rollback saves the current payload again instead of the
\* snapshot's.
PgRollbackToVersion_ReadsCurrent(db, configID, versionNum, actor, t) ==
    LET hits == {v \in db.versions :
                    v.config_id = configID /\ v.version_num = versionNum}
    IN IF hits = {}
       THEN Result(db, ErrVersionNotFound, <<>>)
       ELSE
       LET dna == [Unmarshal(db.configs[configID].data) EXCEPT
                     !.LastModified = t,
                     !.CreatedBy = IF actor # "" THEN actor ELSE @]
       IN PgUpdate(db, dna, t)

PgRollbackToVersion(db, configID, versionNum, actor, t) ==
    LET hits == {v \in db.versions :
                    v.config_id = configID /\ v.version_num = versionNum}
    IN IF hits = {}
       THEN Result(db, ErrVersionNotFound, <<>>)
       ELSE
       LET row == CHOOSE v \in hits : TRUE
           dna == [Unmarshal(row.data) EXCEPT
                     !.LastModified = t,
                     !.CreatedBy = IF actor # "" THEN actor ELSE @]
       IN PgUpdate(db, dna, t)

PgPublishVersion(db, configID, actor, t) ==
    LET rd == PgRead(db, configID)
    IN IF rd.err # OK THEN Result(db, rd.err, <<>>)
       ELSE IF rd.ret[1].IsLocked THEN Result(db, ErrAlreadyLocked, <<>>)
       ELSE
       LET dna == [rd.ret[1] EXCEPT
                     !.IsLocked = TRUE,
                     !.LastModified = t,
                     !.CreatedBy = IF actor # "" THEN actor ELSE @]
       IN Result([db EXCEPT !.configs[configID] =
                     [@ EXCEPT !.is_locked = TRUE, !.data = Marshal(dna),
                               !.updated_at = ParseTime(dna.LastModified)]],
                 OK, <<dna>>)

PgClone(db, id, newName, actor, uuid, t) ==
    LET rd == PgRead(db, id)
    IN IF rd.err # OK THEN Result(db, rd.err, <<>>)
       ELSE
       LET original == rd.ret[1]
           cloned == [IsLocked |-> FALSE, Id |-> uuid, Name |-> newName,
                      Version |-> original.Version, CreatedAt |-> t, LastModified |-> t,
                      CreatedBy |-> actor, Checksum |-> "",
                      Genre |-> original.Genre, Tags |-> original.Tags]
       IN PgCreate(db, cloned, uuid, t)

\* What a reader of the postgres store sees.
PgConfig(db, id) == Unmarshal(db.configs[id].data)

\* The history in ascending order of version number, as MemHistory gives it.
PgHistory(db, id) ==
    LET desc == PgGetVersionHistory(db, id).ret
    IN [i \in 1..Len(desc) |-> desc[Len(desc) + 1 - i]]

\* ------------------------------------------------------------ Store calls
\* Every call is made on both backends with the same arguments, clock
\* reading and uuid draw.  last describes the call that produced the state.
\*
\* A call that fails or only reads leaves both stores as they were, so the
\* calls that can follow it are the calls that could be made in its place.
\* They are explored from the state before it: a state whose last call
\* changed nothing (last.changed = FALSE) is an observation of that call and
\* has no successors of its own.

NewUuid == -(uuidCount + 1)

KnownIds == CallerIds \cup {-k : k \in 1..uuidCount}

VersionNums == 0..MaxMutations

Deref(m, ptr) == IF ptr = 0 THEN <<>> ELSE <<m.heap[ptr]>>

\* The argument of a call that takes none besides an id.
NoArg == [none |-> TRUE]

Call(op, id, v, arg, rm, rp, memRet, drewUuid) ==
    LET changed == rm.st # mem \/ rp.st # pg
    IN /\ last.changed
       /\ changed => mutations < MaxMutations
       /\ mem' = rm.st
       /\ pg' = rp.st
       /\ mutations' = IF changed THEN mutations + 1 ELSE mutations
       /\ uuidCount' = IF drewUuid THEN uuidCount + 1 ELSE uuidCount
       /\ last' = [id |-> id, v |-> v, op |-> op, arg |-> arg, memRet |-> memRet,
                   changed |-> changed, memErr |-> rm.err,
                   pgErr |-> rp.err, pgRet |-> rp.ret]
       /\ published' =
             [b \in {"mem", "pg"} |->
                LET err == IF b = "mem" THEN rm.err ELSE rp.err
                IN IF op = "PublishVersion" /\ err = OK THEN published[b] \cup {id}
                   ELSE IF op = "Delete" /\ err = OK THEN published[b] \ {id}
                   ELSE published[b]]
       /\ UNCHANGED <<now, calls, audit, runner, boot>>

\* last.arg carries the caller's input.
Create(dna) ==
    LET rm == MemCreate(mem, dna, NewUuid, now)
        rp == PgCreate(pg, dna, NewUuid, now)
    IN Call("Create", IF dna.Id = 0 THEN NewUuid ELSE dna.Id, 0, dna, rm, rp,
            Deref(rm.st, rm.ret), dna.Id = 0)

Read(id) ==
    LET rm == MemRead(mem, id)
        rp == PgRead(pg, id)
    IN Call("Read", id, 0, NoArg, rm, rp, Deref(rm.st, rm.ret), FALSE)

\* last.arg carries the caller's input.
Update(dna) ==
    LET rm == MemUpdate(mem, dna, now)
        rp == PgUpdate(pg, dna, now)
    IN Call("Update", dna.Id, 0, dna, rm, rp, Deref(rm.st, rm.ret), FALSE)

Delete(id) ==
    LET rm == MemDelete(mem, id)
        rp == PgDelete(pg, id)
    IN Call("Delete", id, 0, NoArg, rm, rp, <<>>, FALSE)

\* last.arg carries the arguments; the result is the page and the total.
List(filters, pagination, memOrder, pgOrder) ==
    LET rm == MemList(mem, filters, pagination, memOrder)
        rp == PgList(pg, filters, pagination, pgOrder)
    IN /\ PgOrderAllowed(pg, pgOrder)
       /\ Call("List", 0, 0, [filters |-> filters, pagination |-> pagination],
               rm, rp,
               <<[i \in 1..Len(rm.ret[1]) |-> mem.heap[rm.ret[1][i]]], rm.ret[2]>>,
               FALSE)

GetVersionHistory(configID) ==
    LET rm == MemGetVersionHistory(mem, configID)
        rp == PgGetVersionHistory(pg, configID)
    IN Call("GetVersionHistory", configID, 0, NoArg, rm, rp,
            IF rm.err = OK THEN MemHistory(mem, configID) ELSE <<>>, FALSE)

RollbackToVersion(configID, versionNum, actor) ==
    LET rm == MemRollbackToVersion(mem, configID, versionNum, actor, now)
        rp == PgRollbackToVersion(pg, configID, versionNum, actor, now)
    IN Call("RollbackToVersion", configID, versionNum, NoArg, rm, rp,
            Deref(rm.st, rm.ret), FALSE)

PublishVersion(configID, actor) ==
    LET rm == MemPublishVersion(mem, configID, actor, now)
        rp == PgPublishVersion(pg, configID, actor, now)
    IN Call("PublishVersion", configID, 0, NoArg, rm, rp, Deref(rm.st, rm.ret), FALSE)

\* last.v carries the id drawn for the clone.
Clone(id, newName, actor) ==
    LET rm == MemClone(mem, id, newName, actor, NewUuid, now)
        rp == PgClone(pg, id, newName, actor, NewUuid, now)
    IN Call("Clone", id, NewUuid, NoArg, rm, rp, Deref(rm.st, rm.ret),
            id \in DOMAIN mem.configs \/ id \in DOMAIN pg.configs)

\* The wall clock read by time.Now() moves on between calls.
Tick ==
    /\ last.changed
    /\ now < MaxTime
    /\ now' = now + 1
    /\ last' = [id |-> 0, v |-> 0, op |-> "Tick", arg |-> NoArg, memRet |-> <<>>,
                changed |-> TRUE, memErr |-> OK,
                pgErr |-> OK, pgRet |-> <<>>]
    /\ UNCHANGED <<mem, pg, uuidCount, mutations, published, runner, boot, calls, audit>>

\* ------------------------------------------------------------------ Migrate
\* runner.table              schema_migrations exists
\* runner.schema_migrations  the names in schema_migrations
\* runner.applied            how many times the Up SQL of a unit was committed
\* runner.tx                 what the open transaction has done and not committed
\* runner.pc, runner.i       where Migrate stands, and at which place of names
\* runner.err                what the last run of Migrate returned
\* runner.executed, runner.execInRun, runner.complete, runner.runs,
\* runner.faults, runner.failedAt  history of the runs
\* runner.peer               pc, i, tx and err of a second process on the
\*                           same database
\* A unit is named by its place in the sorted names; a file is its lines.

MigrateUp == "-- +migrate Up"

MigrateDown == "-- +migrate Down"

Units == 1..NumUnits

migrationsFS ==
    [name \in Units |->
        IF name = 1 THEN <<MigrateUp, "CREATE TABLE", MigrateDown, "DROP TABLE">>
        ELSE <<MigrateUp, "ALTER TABLE">>]

extractUpSQL(sqlText) ==
    LET downs == {i \in 1..Len(sqlText) : sqlText[i] = MigrateDown}
        upPart == IF downs = {} THEN sqlText
                  ELSE SubSeq(sqlText, 1,
                              (CHOOSE i \in downs : \A j \in downs : i <= j) - 1)
        NotMarker(l) == l # MigrateUp
    IN SelectSeq(upPart, NotMarker)

NoTx == [open |-> FALSE, up |-> {}, record |-> {}]

NewRunner ==
    [i |-> 0, err |-> OK, table |-> FALSE,
     schema_migrations |-> {}, applied |-> [name \in Units |-> 0], tx |-> NoTx, pc |-> "idle",
     executed |-> [name \in Units |-> 0], execInRun |-> 0, complete |-> FALSE,
     runs |-> 0, faults |-> 0, failedAt |-> 0,
     peer |-> [i |-> 0, err |-> OK, tx |-> NoTx, pc |-> "idle"]]

\* ---------------------------------------------------------------------- run
\* boot.pc           where run() of cmd/server stands ("off": no process)
\* boot.url          cfg.Database.URL
\* boot.useFallback  cfg.Database.UseFallback
\* boot.store        the Store the process holds: "none", "memory", "postgres"
\* boot.err          what run() returned
\* boot.ping, boot.served, boot.lastCall, boot.boots  history of the process

MemoryURLs == {"", "memory"}

DatabaseURLs == MemoryURLs \cup {"postgres://db"}

ErrConnect == "failed to connect to database"

ErrMigrations == "failed to run migrations"

ErrListen == "failed to listen"

ErrUnavailable == "backend unavailable"

NewBoot ==
    [err |-> OK, pc |-> "off", url |-> "", useFallback |-> FALSE, store |-> "none",
     ping |-> "none", served |-> 0, lastCall |-> [err |-> OK, store |-> "none"],
     boots |-> 0]

\* A goroutine that is in no call.
IdleCall ==
    [id |-> 0, v |-> 0, dna |-> ZeroGameDNA, actor |-> "", ptr |-> 0,
     op |-> "", pc |-> "idle", maxVersion |-> 0, wrote |-> FALSE,
     expect |-> [err |-> OK, ret |-> <<>>]]

Goroutines == 1..NumGoroutines

Init ==
    /\ mem = NewMemoryStore
    /\ pg = NewPostgresStore
    /\ now = 1
    /\ uuidCount = 0
    /\ mutations = 0
    /\ published = [b \in {"mem", "pg"} |-> {}]
    /\ last = [id |-> 0, v |-> 0, op |-> "New", arg |-> NoArg, memRet |-> <<>>,
               changed |-> TRUE, memErr |-> OK,
               pgErr |-> OK, pgRet |-> <<>>]
    /\ calls = [g \in Goroutines |-> IdleCall]
    /\ audit = [faults |-> 0, returns |-> 0, lastChange |-> EmptyMap,
                seq |-> NewMemoryStore]
    /\ runner = NewRunner
    /\ boot = NewBoot

Next ==
    \/ \E id \in {0} \cup CallerIds, tpl \in CreateTemplates : Create(MkInput(id, tpl))
    \/ \E id \in KnownIds : Read(id)
    \/ \E id \in KnownIds, tpl \in UpdateTemplates : Update(MkInput(id, tpl))
    \/ \E id \in KnownIds : Delete(id)
    \/ \E id \in KnownIds : GetVersionHistory(id)
    \/ /\ last.changed
       /\ \E filters \in ListFilterInputs, pagination \in PaginationInputs,
             memOrder \in Orders(DOMAIN mem.configs),
             pgOrder \in Orders(DOMAIN pg.configs) :
             List(filters, pagination, memOrder, pgOrder)
    \/ \E id \in KnownIds, v \in VersionNums, actor \in Actors :
          RollbackToVersion(id, v, actor)
    \/ \E id \in KnownIds, actor \in Actors : PublishVersion(id, actor)
    \/ \E id \in KnownIds, newName \in CloneNames, actor \in CloneActors :
          Clone(id, newName, actor)
    \/ Tick

Spec == Init /\ [][Next]_vars

\* ------------------------------------------------- callers and their objects
\* What a caller writes into an object it holds.
CallerValue == "MOD"

\* The objects of the memory store that the call described by last handed
\* to its caller or took from it: Create and Update keep the pointer they
\* are passed and return it, Read and PublishVersion return the pointer held
\* in the map, GetVersionHistory returns the slice of the store, whose
\* elements point to the snapshots' data.
CallerPointers ==
    IF last.memErr # OK THEN {}
    ELSE IF last.op \in {"Create", "Read", "Update", "PublishVersion"}
    THEN {mem.configs[last.id]}
    ELSE IF last.op = "GetVersionHistory"
    THEN {mem.versions[last.id][i].Data : i \in 1..Len(mem.versions[last.id])}
    ELSE {}

\* After a call has returned, its caller changes a field of an object the
\* call took or returned.  What PostgresStore takes and returns are objects
\* apart from its tables: the write reaches no row.
CallerWrites(ptr) ==
    /\ last.op \in {"Create", "Read", "Update", "PublishVersion", "GetVersionHistory"}
    /\ mutations < MaxMutations
    /\ ptr \in CallerPointers
    /\ mem' = [mem EXCEPT !.heap[ptr].Genre = CallerValue]
    /\ mutations' = mutations + 1
    /\ last' = [id |-> last.id, v |-> 0, op |-> "CallerWrites", arg |-> NoArg,
                memRet |-> <<>>, changed |-> TRUE, memErr |-> OK,
                pgErr |-> OK, pgRet |-> <<>>]
    /\ UNCHANGED <<pg, now, uuidCount, published, runner, boot, calls, audit>>

\* The calls whose objects callers hold, and the callers' writes.
NextOwnership ==
    \/ \E id \in {0} \cup CallerIds, tpl \in CreateTemplates : Create(MkInput(id, tpl))
    \/ \E id \in KnownIds : Read(id)
    \/ \E id \in KnownIds, tpl \in UpdateTemplates : Update(MkInput(id, tpl))
    \/ \E id \in KnownIds : GetVersionHistory(id)
    \/ \E id \in KnownIds, actor \in Actors : PublishVersion(id, actor)
    \/ \E ptr \in 1..Len(mem.heap) : CallerWrites(ptr)
    \/ Tick

SpecOwnership == Init /\ [][NextOwnership]_vars

\* ------------------------------------------- PostgresStore, by statement
\* PostgresStore runs every statement on p.db, a pool of connections, and
\* opens no transaction: each statement commits by itself, and the
\* statements of calls made by different goroutines interleave.  A step is
\* one statement of one goroutine; the code a call runs before its first
\* statement touches nothing shared and is part of that statement's step.
\*
\* audit.faults      how many statements failed for a reason outside the
\*                   tables (a lost connection, a cancelled context)
\* audit.returns     how many calls have returned
\* audit.lastChange  per config id, the call that wrote its configs row last

\* The error a call returns when the statement at pc fails.
FaultError ==
    [maxVersion |-> "failed to get version count",
     createVersion |-> ErrSnapshotFailed,
     check |-> "failed to check config",
     updateRow |-> ErrUpdateFailed,
     insertVersion |-> ErrSnapshotFailed,
     publishRow |-> "failed to publish config"]

\* The call of goroutine g returns: last describes what it returned, and
\* last.arg tells whether the call has changed a table.
Returns(g, op, id, err, ret, wrote) ==
    /\ calls' = [calls EXCEPT ![g] = IdleCall]
    /\ last' = [id |-> id, v |-> g, op |-> op,
                arg |-> [wrote |-> wrote], memRet |-> <<>>,
                changed |-> TRUE, memErr |-> OK, pgErr |-> err, pgRet |-> ret]

Returned(n) == [audit EXCEPT !.returns = @ + n]

Changed(a, id, op) == [a EXCEPT !.lastChange = Put(@, id, op)]

\* A goroutine starts a call.
Starts(g) ==
    /\ calls[g].pc = "idle"
    /\ mutations < MaxMutations
    /\ mutations' = mutations + 1

\* Create up to and with INSERT INTO game_dna_configs.
StmtCreateInsertConfig(g, dna) ==
    LET d == [dna EXCEPT
                !.Id = IF dna.Id = 0 THEN NewUuid ELSE dna.Id,
                !.CreatedAt = IF dna.CreatedAt = 0 THEN now ELSE dna.CreatedAt,
                !.LastModified = IF dna.LastModified = 0 THEN now ELSE dna.LastModified,
                !.Version = IF dna.Version = "" THEN DefaultVersion ELSE dna.Version]
        ins == InsertConfig(pg,
                 [id |-> d.Id, tags |-> d.Tags, name |-> d.Name,
                  version |-> d.Version, checksum |-> d.Checksum,
                  data |-> Marshal(d), updated_at |-> ParseTime(d.LastModified),
                  is_locked |-> d.IsLocked,
                  created_at |-> ParseTime(d.CreatedAt), created_by |-> d.CreatedBy])
    IN /\ Starts(g)
       /\ uuidCount' = IF dna.Id = 0 THEN uuidCount + 1 ELSE uuidCount
       /\ pg' = ins.db
       /\ IF ins.ok
          THEN /\ calls' = [calls EXCEPT ![g] =
                              [IdleCall EXCEPT !.op = "Create", !.pc = "createVersion",
                                               !.id = d.Id, !.dna = d, !.wrote = TRUE]]
               /\ audit' = Changed(audit, d.Id, "Create")
               /\ UNCHANGED last
          ELSE /\ Returns(g, "Create", d.Id, ErrCreateFailed, <<>>, FALSE)
               /\ audit' = Returned(1)
       /\ UNCHANGED <<mem, now, published, runner, boot>>

\* Create: INSERT INTO game_dna_versions with version_num 1.
StmtCreateInsertVersion(g) ==
    LET c == calls[g]
        snap == InsertVersion(pg,
                 [id |-> 0, config_id |-> c.id, version_num |-> FirstVersionNum,
                  checksum |-> c.dna.Checksum, data |-> Marshal(c.dna),
                  created_at |-> ParseTime(c.dna.CreatedAt),
                  created_by |-> c.dna.CreatedBy])
    IN /\ c.pc = "createVersion"
       /\ pg' = snap.db
       /\ Returns(g, c.op, c.id, IF snap.ok THEN OK ELSE ErrSnapshotFailed,
                  IF snap.ok THEN <<c.dna>> ELSE <<>>, TRUE)
       /\ audit' = Returned(1)
       /\ UNCHANGED <<mem, now, uuidCount, mutations, published, runner, boot>>

\* SELECT is_locked FROM game_dna_configs WHERE id, for the call c.
CheckLocked(g, c) ==
    /\ IF c.id \notin DOMAIN pg.configs
       THEN /\ Returns(g, c.op, c.id, ErrConfigNotFound, <<>>, c.wrote)
            /\ audit' = Returned(1)
       ELSE IF pg.configs[c.id].is_locked
       THEN /\ Returns(g, c.op, c.id, ErrConfigLocked, <<>>, c.wrote)
            /\ audit' = Returned(1)
       ELSE /\ calls' = [calls EXCEPT ![g] =
                           [c EXCEPT !.pc = "updateRow", !.dna.LastModified = now]]
            /\ UNCHANGED <<last, audit>>
    /\ UNCHANGED <<mem, pg, now, uuidCount, published, runner, boot>>

\* Update up to and with the check of the lock.
StmtUpdateCheck(g, dna) ==
    /\ Starts(g)
    /\ CheckLocked(g, [IdleCall EXCEPT !.op = "Update", !.id = dna.Id, !.dna = dna])

\* RollbackToVersion up to and with SELECT data FROM game_dna_versions.
StmtRollbackSelect(g, configID, versionNum, actor) ==
    LET hits == {v \in pg.versions :
                    v.config_id = configID /\ v.version_num = versionNum}
    IN /\ Starts(g)
       /\ IF hits = {}
          THEN /\ Returns(g, "RollbackToVersion", configID, ErrVersionNotFound,
                          <<>>, FALSE)
               /\ audit' = Returned(1)
          ELSE LET row == CHOOSE v \in hits : TRUE
                   dna == [Unmarshal(row.data) EXCEPT
                             !.LastModified = now,
                             !.CreatedBy = IF actor # "" THEN actor ELSE @]
               IN /\ calls' = [calls EXCEPT ![g] =
                                 [IdleCall EXCEPT !.op = "RollbackToVersion",
                                                  !.pc = "check", !.id = dna.Id,
                                                  !.v = versionNum, !.actor = actor,
                                                  !.dna = dna]]
                  /\ UNCHANGED <<last, audit>>
       /\ UNCHANGED <<mem, pg, now, uuidCount, published, runner, boot>>

\* RollbackToVersion: the check of the lock made by the Update it ends in.
StmtRollbackCheck(g) ==
    /\ calls[g].pc = "check"
    /\ CheckLocked(g, calls[g])
    /\ UNCHANGED mutations

\* Update: UPDATE game_dna_configs.
StmtUpdateRow(g) ==
    LET c == calls[g]
        upd == UpdateConfigRow(pg, c.id, Marshal(c.dna), c.dna.Checksum,
                               ParseTime(c.dna.LastModified), c.dna.Tags,
                               c.dna.Name, c.dna.Version)
    IN /\ c.pc = "updateRow"
       /\ pg' = upd.db
       /\ IF upd.ok
          THEN /\ calls' = [calls EXCEPT ![g] =
                              [c EXCEPT !.pc = "maxVersion",
                                        !.wrote = c.id \in DOMAIN pg.configs]]
               /\ audit' = IF c.id \in DOMAIN pg.configs
                           THEN Changed(audit, c.id, c.op) ELSE audit
               /\ UNCHANGED last
          ELSE /\ Returns(g, c.op, c.id, ErrUpdateFailed, <<>>, FALSE)
               /\ audit' = Returned(1)
       /\ UNCHANGED <<mem, now, uuidCount, mutations, published, runner, boot>>

\* Update: SELECT COALESCE(MAX(version_num), 0).
StmtMaxVersion(g) ==
    /\ calls[g].pc = "maxVersion"
    /\ calls' = [calls EXCEPT ![g].pc = "insertVersion",
                              ![g].maxVersion = MaxVersionNum(pg, calls[g].id)]
    /\ UNCHANGED <<mem, pg, now, uuidCount, mutations, last, published, runner, boot, audit>>

\* Update: INSERT INTO game_dna_versions with version_num maxVersion + 1.
StmtInsertVersion(g) ==
    LET c == calls[g]
        snap == InsertVersion(pg,
                 [id |-> 0, config_id |-> c.id, version_num |-> c.maxVersion + 1,
                  checksum |-> c.dna.Checksum, data |-> Marshal(c.dna),
                  created_at |-> ParseTime(c.dna.LastModified),
                  created_by |-> c.dna.CreatedBy])
    IN /\ c.pc = "insertVersion"
       /\ pg' = snap.db
       /\ Returns(g, c.op, c.id, IF snap.ok THEN OK ELSE ErrSnapshotFailed,
                  IF snap.ok THEN <<c.dna>> ELSE <<>>, c.wrote \/ snap.ok)
       /\ audit' = Returned(1)
       /\ UNCHANGED <<mem, now, uuidCount, mutations, published, runner, boot>>

\* PublishVersion up to and with the Read of the config.
StmtPublishRead(g, configID, actor) ==
    LET rd == PgRead(pg, configID)
    IN /\ Starts(g)
       /\ IF rd.err # OK \/ rd.ret[1].IsLocked
          THEN /\ Returns(g, "PublishVersion", configID,
                          IF rd.err # OK THEN rd.err ELSE ErrAlreadyLocked, <<>>, FALSE)
               /\ audit' = Returned(1)
          ELSE /\ calls' = [calls EXCEPT ![g] =
                              [IdleCall EXCEPT
                                 !.op = "PublishVersion", !.pc = "publishRow",
                                 !.id = configID, !.actor = actor,
                                 !.dna = [rd.ret[1] EXCEPT
                                            !.IsLocked = TRUE,
                                            !.LastModified = now,
                                            !.CreatedBy = IF actor # "" THEN actor
                                                          ELSE @]]]
               /\ UNCHANGED <<last, audit>>
       /\ UNCHANGED <<mem, pg, now, uuidCount, published, runner, boot>>

\* PublishVersion: UPDATE game_dna_configs SET is_locked = true, data,
\* updated_at.  A row that is gone makes the statement change nothing.
StmtPublishRow(g) ==
    LET c == calls[g]
        found == c.id \in DOMAIN pg.configs
    IN /\ c.pc = "publishRow"
       /\ pg' = IF found
                THEN [pg EXCEPT !.configs[c.id] =
                        [@ EXCEPT !.is_locked = TRUE, !.data = Marshal(c.dna),
                                  !.updated_at = ParseTime(c.dna.LastModified)]]
                ELSE pg
       /\ Returns(g, c.op, c.id, OK, <<c.dna>>, found)
       /\ audit' = IF found THEN Changed(Returned(1), c.id, c.op) ELSE Returned(1)
       /\ UNCHANGED <<mem, now, uuidCount, mutations, published, runner, boot>>

\* Read: SELECT data FROM game_dna_configs WHERE id.
StmtRead(g, id) ==
    /\ Starts(g)
    /\ Returns(g, "Read", id, PgRead(pg, id).err, PgRead(pg, id).ret, FALSE)
    /\ audit' = Returned(1)
    /\ UNCHANGED <<mem, pg, now, uuidCount, published, runner, boot>>

\* The statement goroutine g is at fails and changes nothing; the call
\* returns the error without undoing what its earlier statements wrote.
StmtFails(g) ==
    /\ calls[g].pc # "idle"
    /\ audit.faults < MaxFaults
    /\ Returns(g, calls[g].op, calls[g].id, FaultError[calls[g].pc], <<>>,
               calls[g].wrote)
    /\ audit' = [Returned(1) EXCEPT !.faults = @ + 1]
    /\ UNCHANGED <<mem, pg, now, uuidCount, mutations, published, runner, boot>>

NextStatements ==
    \E g \in Goroutines :
       \/ \E id \in {0} \cup CallerIds, tpl \in CreateTemplates :
             StmtCreateInsertConfig(g, MkInput(id, tpl))
       \/ StmtCreateInsertVersion(g)
       \/ \E id \in KnownIds, tpl \in UpdateTemplates :
             StmtUpdateCheck(g, MkInput(id, tpl))
       \/ \E id \in KnownIds, v \in VersionNums, actor \in Actors :
             StmtRollbackSelect(g, id, v, actor)
       \/ StmtRollbackCheck(g)
       \/ StmtUpdateRow(g)
       \/ StmtMaxVersion(g)
       \/ StmtInsertVersion(g)
       \/ \E id \in KnownIds, actor \in Actors : StmtPublishRead(g, id, actor)
       \/ StmtPublishRow(g)
       \/ \E id \in KnownIds : StmtRead(g, id)
       \/ StmtFails(g)

SpecStatements == Init /\ [][NextStatements]_vars

\* ------------------------------------------------ MemoryStore, by the lock
\* Every method of MemoryStore runs between m.mu.Lock() and the deferred
\* m.mu.Unlock(), or between RLock and RUnlock.  A call is three steps: it
\* is invoked and waits for the mutex; it takes the mutex and runs the first
\* part of its body; it runs the rest, releases the mutex and returns.
\*
\* calls[g].pc   "wantLock" / "wantRLock": invoked, waiting for the mutex
\*               "locked" / "rlocked": holding it
\* calls[g].ptr  the pointer the call holds in a local variable
\* calls[g].expect  history variable: what the call returned on audit.seq
\* audit.seq     history variable: a MemoryStore on which each call is made
\*               in one piece at the moment it takes the mutex

HoldsLock(g) == calls[g].pc = "locked"

HoldsRLock(g) == calls[g].pc = "rlocked"

\* sync.RWMutex.RLock returns when no goroutine holds the write lock.
CanRLock(g) == \A h \in Goroutines \ {g} : ~HoldsLock(h)

\* Mutant: a writer takes the mutex the way a reader does.
CanLock_AsReader(g) == CanRLock(g)

\* sync.RWMutex.Lock returns when no goroutine holds the mutex in any way.
CanLock(g) == \A h \in Goroutines \ {g} : ~HoldsLock(h) /\ ~HoldsRLock(h)

\* A call on the in-memory backend is made by goroutine g.
Invoke(g, op, want, id, actor, dna) ==
    /\ Starts(g)
    /\ calls' = [calls EXCEPT ![g] =
                   [IdleCall EXCEPT !.op = op, !.pc = want, !.id = id,
                                    !.actor = actor, !.dna = dna]]
    /\ UNCHANGED <<mem, pg, now, uuidCount, last, published, runner, boot, audit>>

\* What the result r of a call on audit.seq gives its caller.
Expected(r) == [err |-> r.err, ret |-> Deref(r.st, r.ret)]

Sequenced(a, r) == [a EXCEPT !.seq = r.st]

\* Mutant: the call returns and the mutex stays taken.
MemReturns_KeepsLock(g, err, ret, expect) ==
    /\ calls' = [calls EXCEPT ![g] = [IdleCall EXCEPT !.pc = "locked"]]
    /\ last' = [id |-> calls[g].id, v |-> g, op |-> calls[g].op, arg |-> expect,
                memRet |-> ret, changed |-> TRUE, memErr |-> err,
                pgErr |-> OK, pgRet |-> <<>>]

\* The call of g on the in-memory backend returns; last.arg holds what the
\* same call returned on audit.seq.
MemReturns(g, err, ret, expect) ==
    /\ calls' = [calls EXCEPT ![g] = IdleCall]
    /\ last' = [id |-> calls[g].id, v |-> g, op |-> calls[g].op, arg |-> expect,
                memRet |-> ret, changed |-> TRUE, memErr |-> err,
                pgErr |-> OK, pgRet |-> <<>>]

\* Create from Lock to m.configs[dna.Id] = dna.
LockCreate(g) ==
    LET c == calls[g]
        d == [c.dna EXCEPT
                !.Id = IF c.dna.Id = 0 THEN NewUuid ELSE c.dna.Id,
                !.CreatedAt = IF c.dna.CreatedAt = 0 THEN now ELSE c.dna.CreatedAt,
                !.LastModified = IF c.dna.LastModified = 0 THEN now
                                 ELSE c.dna.LastModified,
                !.Version = IF c.dna.Version = "" THEN DefaultVersion
                            ELSE c.dna.Version]
        a == Len(mem.heap) + 1
        r == MemCreate(audit.seq, c.dna, NewUuid, now)
    IN /\ c.op = "Create" /\ c.pc = "wantLock"
       /\ CanLock(g)
       /\ mem' = [mem EXCEPT !.heap = Append(@, d), !.configs = Put(@, d.Id, a)]
       /\ uuidCount' = IF c.dna.Id = 0 THEN uuidCount + 1 ELSE uuidCount
       /\ calls' = [calls EXCEPT ![g].pc = "locked", ![g].id = d.Id, ![g].ptr = a,
                                 ![g].expect = Expected(r)]
       /\ audit' = Sequenced(audit, r)
       /\ UNCHANGED <<pg, now, mutations, last, published, runner, boot>>

\* Create from the snapshot to the return.
UnlockCreate(g) ==
    LET c == calls[g]
        dna == mem.heap[c.ptr]
        a == Len(mem.heap) + 1
        st == [mem EXCEPT
                 !.heap = Append(@, deepCopyGameDNA(dna)),
                 !.versions = Put(@, dna.Id,
                     << [CreatedAt |-> dna.CreatedAt, CreatedBy |-> dna.CreatedBy,
                         Checksum |-> dna.Checksum, VersionNum |-> FirstVersionNum,
                         Data |-> a] >>)]
    IN /\ c.op = "Create" /\ c.pc = "locked"
       /\ mem' = st
       /\ MemReturns(g, OK, Deref(st, c.ptr), c.expect)
       /\ audit' = Returned(1)
       /\ UNCHANGED <<pg, now, uuidCount, mutations, published, runner, boot>>

\* Update from Lock to m.configs[dna.Id] = dna.
LockUpdate(g) ==
    LET c == calls[g]
        r == MemUpdate(audit.seq, c.dna, now)
        a == Len(mem.heap) + 1
    IN /\ c.op = "Update" /\ c.pc = "wantLock"
       /\ CanLock(g)
       /\ IF c.dna.Id \notin DOMAIN mem.configs
          THEN /\ MemReturns(g, ErrConfigNotFound, <<>>, Expected(r))
               /\ audit' = Sequenced(Returned(1), r)
               /\ UNCHANGED mem
          ELSE IF mem.heap[mem.configs[c.dna.Id]].IsLocked
          THEN /\ MemReturns(g, ErrConfigLocked, <<>>, Expected(r))
               /\ audit' = Sequenced(Returned(1), r)
               /\ UNCHANGED mem
          ELSE /\ mem' = [mem EXCEPT
                            !.heap = Append(@, [c.dna EXCEPT !.LastModified = now]),
                            !.configs = Put(@, c.dna.Id, a)]
               /\ calls' = [calls EXCEPT ![g].pc = "locked", ![g].ptr = a,
                                         ![g].expect = Expected(r)]
               /\ audit' = Sequenced(audit, r)
               /\ UNCHANGED last
       /\ UNCHANGED <<pg, now, uuidCount, mutations, published, runner, boot>>

\* Update from nextVersion to the return.
UnlockUpdate(g) ==
    LET c == calls[g]
        dna == mem.heap[c.ptr]
        a == Len(mem.heap) + 1
        nextVersion == NextVersion(mem.versions[dna.Id])
        st == [mem EXCEPT
                 !.heap = Append(@, deepCopyGameDNA(dna)),
                 !.versions = Put(@, dna.Id,
                     Append(mem.versions[dna.Id],
                       [CreatedAt |-> dna.LastModified, CreatedBy |-> dna.CreatedBy,
                        Checksum |-> dna.Checksum, VersionNum |-> nextVersion,
                        Data |-> a]))]
    IN /\ c.op = "Update" /\ c.pc = "locked"
       /\ mem' = st
       /\ MemReturns(g, OK, Deref(st, c.ptr), c.expect)
       /\ audit' = Returned(1)
       /\ UNCHANGED <<pg, now, uuidCount, mutations, published, runner, boot>>

\* PublishVersion from Lock to the check of IsLocked.
LockPublishVersion(g) ==
    LET c == calls[g]
        r == MemPublishVersion(audit.seq, c.id, c.actor, now)
    IN /\ c.op = "PublishVersion" /\ c.pc = "wantLock"
       /\ CanLock(g)
       /\ IF c.id \notin DOMAIN mem.configs
          THEN /\ MemReturns(g, ErrConfigNotFound, <<>>, Expected(r))
               /\ audit' = Sequenced(Returned(1), r)
          ELSE IF mem.heap[mem.configs[c.id]].IsLocked
          THEN /\ MemReturns(g, ErrAlreadyLocked, <<>>, Expected(r))
               /\ audit' = Sequenced(Returned(1), r)
          ELSE /\ calls' = [calls EXCEPT ![g].pc = "locked",
                                         ![g].ptr = mem.configs[c.id],
                                         ![g].expect = Expected(r)]
               /\ audit' = Sequenced(audit, r)
               /\ UNCHANGED last
       /\ UNCHANGED <<mem, pg, now, uuidCount, mutations, published, runner, boot>>

\* PublishVersion from dna.IsLocked = true to the return.
UnlockPublishVersion(g) ==
    LET c == calls[g]
        st == [mem EXCEPT
                 !.heap[c.ptr] =
                    [@ EXCEPT !.IsLocked = TRUE,
                              !.LastModified = now,
                              !.CreatedBy = IF c.actor # "" THEN c.actor ELSE @],
                 !.configs = Put(@, c.id, c.ptr)]
    IN /\ c.op = "PublishVersion" /\ c.pc = "locked"
       /\ mem' = st
       /\ MemReturns(g, OK, Deref(st, c.ptr), c.expect)
       /\ audit' = Returned(1)
       /\ UNCHANGED <<pg, now, uuidCount, mutations, published, runner, boot>>

\* Read from RLock to the lookup in the map.
RLockRead(g) ==
    LET c == calls[g]
    IN /\ c.op = "Read" /\ c.pc = "wantRLock"
       /\ CanRLock(g)
       /\ calls' = [calls EXCEPT
                      ![g].pc = "rlocked",
                      ![g].ptr = IF c.id \in DOMAIN mem.configs
                                 THEN mem.configs[c.id] ELSE 0,
                      ![g].expect = Expected(MemRead(audit.seq, c.id))]
       /\ UNCHANGED <<mem, pg, now, uuidCount, mutations, last, published, runner, boot, audit>>

\* Read from the check of the lookup to the return.
RUnlockRead(g) ==
    LET c == calls[g]
    IN /\ c.op = "Read" /\ c.pc = "rlocked"
       /\ MemReturns(g, IF c.ptr = 0 THEN ErrConfigNotFound ELSE OK,
                     Deref(mem, c.ptr), c.expect)
       /\ audit' = Returned(1)
       /\ UNCHANGED <<mem, pg, now, uuidCount, mutations, published, runner, boot>>

NextLocks ==
    \E g \in Goroutines :
       \/ \E id \in {0} \cup CallerIds, tpl \in CreateTemplates :
             Invoke(g, "Create", "wantLock", id, "", MkInput(id, tpl))
       \/ \E id \in KnownIds, tpl \in UpdateTemplates :
             Invoke(g, "Update", "wantLock", id, "", MkInput(id, tpl))
       \/ \E id \in KnownIds, actor \in Actors :
             Invoke(g, "PublishVersion", "wantLock", id, actor, ZeroGameDNA)
       \/ \E id \in KnownIds : Invoke(g, "Read", "wantRLock", id, "", ZeroGameDNA)
       \/ LockCreate(g)
       \/ UnlockCreate(g)
       \/ LockUpdate(g)
       \/ UnlockUpdate(g)
       \/ LockPublishVersion(g)
       \/ UnlockPublishVersion(g)
       \/ RLockRead(g)
       \/ RUnlockRead(g)

SpecLocks == Init /\ [][NextLocks]_vars

\* A call that takes a number besides the id is made by goroutine g.
InvokeWith(g, op, want, id, v, actor) ==
    /\ Starts(g)
    /\ calls' = [calls EXCEPT ![g] =
                   [IdleCall EXCEPT !.op = op, !.pc = want, !.id = id, !.v = v,
                                    !.actor = actor]]
    /\ UNCHANGED <<mem, pg, now, uuidCount, last, published, runner, boot, audit>>

\* RollbackToVersion from Lock to the search of the version.
LockRollbackToVersion(g) ==
    LET c == calls[g]
        r == MemRollbackToVersion(mem, c.id, c.v, c.actor, now)
    IN /\ c.op = "RollbackToVersion" /\ c.pc = "wantLock"
       /\ CanLock(g)
       /\ IF r.err # OK
          THEN /\ MemReturns(g, r.err, <<>>, Expected(r))
               /\ audit' = Returned(1)
          ELSE /\ calls' = [calls EXCEPT ![g].pc = "locked"]
               /\ UNCHANGED <<last, audit>>
       /\ UNCHANGED <<mem, pg, now, uuidCount, mutations, published, runner, boot>>

\* RollbackToVersion from the deep copy to the return.
UnlockRollbackToVersion(g) ==
    LET c == calls[g]
        r == MemRollbackToVersion(mem, c.id, c.v, c.actor, now)
    IN /\ c.op = "RollbackToVersion" /\ c.pc = "locked"
       /\ mem' = r.st
       /\ MemReturns(g, r.err, Deref(r.st, r.ret), Expected(r))
       /\ audit' = Returned(1)
       /\ UNCHANGED <<pg, now, uuidCount, mutations, published, runner, boot>>

\* List takes the read lock.
RLockList(g) ==
    LET c == calls[g]
    IN /\ c.op = "List" /\ c.pc = "wantRLock"
       /\ CanRLock(g)
       /\ calls' = [calls EXCEPT ![g].pc = "rlocked"]
       /\ UNCHANGED <<mem, pg, now, uuidCount, mutations, last, published, runner, boot, audit>>

\* List from the loop over m.configs to the return, or to the panic of
\* result[start:end]; the deferred RUnlock runs in both.  id and v of the
\* call hold Page and PageSize.
RUnlockList(g) ==
    LET c == calls[g]
    IN /\ c.op = "List" /\ c.pc = "rlocked"
       /\ \E order \in Orders(DOMAIN mem.configs) :
             LET r == MemList(mem, NoFilters, [Page |-> c.id, PageSize |-> c.v], order)
             IN MemReturns(g, r.err, <<>>, [err |-> r.err, ret |-> <<>>])
       /\ audit' = Returned(1)
       /\ UNCHANGED <<mem, pg, now, uuidCount, mutations, published, runner, boot>>

\* Delete from Lock to the lookup in the map.
LockDelete(g) ==
    LET c == calls[g]
        r == MemDelete(mem, c.id)
    IN /\ c.op = "Delete" /\ c.pc = "wantLock"
       /\ CanLock(g)
       /\ IF r.err # OK
          THEN /\ MemReturns(g, r.err, <<>>, Expected(r))
               /\ audit' = Returned(1)
          ELSE /\ calls' = [calls EXCEPT ![g].pc = "locked"]
               /\ UNCHANGED <<last, audit>>
       /\ UNCHANGED <<mem, pg, now, uuidCount, mutations, published, runner, boot>>

\* Delete from the two delete() to the return.
UnlockDelete(g) ==
    LET c == calls[g]
        r == MemDelete(mem, c.id)
    IN /\ c.op = "Delete" /\ c.pc = "locked"
       /\ mem' = r.st
       /\ MemReturns(g, r.err, <<>>, Expected(r))
       /\ audit' = Returned(1)
       /\ UNCHANGED <<pg, now, uuidCount, mutations, published, runner, boot>>

\* GetVersionHistory takes the read lock.
RLockGetVersionHistory(g) ==
    LET c == calls[g]
    IN /\ c.op = "GetVersionHistory" /\ c.pc = "wantRLock"
       /\ CanRLock(g)
       /\ calls' = [calls EXCEPT ![g].pc = "rlocked"]
       /\ UNCHANGED <<mem, pg, now, uuidCount, mutations, last, published, runner, boot, audit>>

\* GetVersionHistory from the lookup to the return.
RUnlockGetVersionHistory(g) ==
    LET c == calls[g]
        r == MemGetVersionHistory(mem, c.id)
    IN /\ c.op = "GetVersionHistory" /\ c.pc = "rlocked"
       /\ MemReturns(g, r.err, <<>>, [err |-> r.err, ret |-> <<>>])
       /\ audit' = Returned(1)
       /\ UNCHANGED <<mem, pg, now, uuidCount, mutations, published, runner, boot>>

\* Clone from Lock to the lookup of the source.
LockClone(g) ==
    LET c == calls[g]
        r == MemClone(mem, c.id, c.dna.Name, c.actor, NewUuid, now)
    IN /\ c.op = "Clone" /\ c.pc = "wantLock"
       /\ CanLock(g)
       /\ IF r.err # OK
          THEN /\ MemReturns(g, r.err, <<>>, Expected(r))
               /\ audit' = Returned(1)
          ELSE /\ calls' = [calls EXCEPT ![g].pc = "locked"]
               /\ UNCHANGED <<last, audit>>
       /\ UNCHANGED <<mem, pg, now, uuidCount, mutations, published, runner, boot>>

\* Clone from the copy to the return.
UnlockClone(g) ==
    LET c == calls[g]
        r == MemClone(mem, c.id, c.dna.Name, c.actor, NewUuid, now)
    IN /\ c.op = "Clone" /\ c.pc = "locked"
       /\ mem' = r.st
       /\ uuidCount' = uuidCount + 1
       /\ MemReturns(g, r.err, Deref(r.st, r.ret), Expected(r))
       /\ audit' = Returned(1)
       /\ UNCHANGED <<pg, now, mutations, published, runner, boot>>

\* What a goroutine does between the invocation and the return of a call.
Proceeds(g) ==
    \/ LockCreate(g)
    \/ UnlockCreate(g)
    \/ LockUpdate(g)
    \/ UnlockUpdate(g)
    \/ LockPublishVersion(g)
    \/ UnlockPublishVersion(g)
    \/ RLockRead(g)
    \/ RUnlockRead(g)
    \/ LockRollbackToVersion(g)
    \/ UnlockRollbackToVersion(g)
    \/ RLockList(g)
    \/ RUnlockList(g)
    \/ LockDelete(g)
    \/ UnlockDelete(g)
    \/ RLockGetVersionHistory(g)
    \/ RUnlockGetVersionHistory(g)
    \/ LockClone(g)
    \/ UnlockClone(g)

\* The calls made under SpecLocksFair: one that succeeds and one that fails
\* of each kind is enough for the paths to the deferred Unlock.
FairUpdateTemplates == { <<"alpha", "0.1.0", "RPG", TRUE, "sumR", <<>> >> }

FairVersionNums == {1, 3}

FairPaginationInputs ==
    { [Page |-> 1, PageSize |-> 2], [Page |-> BigPageSize + 1, PageSize |-> 2] }

NextLocksFair ==
    \E g \in Goroutines :
       \/ Invoke(g, "Create", "wantLock", 0, "", ZeroGameDNA)
       \/ \E id \in KnownIds, tpl \in FairUpdateTemplates :
             Invoke(g, "Update", "wantLock", id, "", MkInput(id, tpl))
       \/ \E id \in KnownIds, actor \in CloneActors :
             Invoke(g, "PublishVersion", "wantLock", id, actor, ZeroGameDNA)
       \/ \E id \in KnownIds : Invoke(g, "Read", "wantRLock", id, "", ZeroGameDNA)
       \/ \E id \in KnownIds, v \in FairVersionNums, actor \in CloneActors :
             InvokeWith(g, "RollbackToVersion", "wantLock", id, v, actor)
       \/ \E pagination \in FairPaginationInputs :
             InvokeWith(g, "List", "wantRLock", pagination.Page, pagination.PageSize, "")
       \/ \E id \in KnownIds : Invoke(g, "Delete", "wantLock", id, "", ZeroGameDNA)
       \/ \E id \in KnownIds :
             Invoke(g, "GetVersionHistory", "wantRLock", id, "", ZeroGameDNA)
       \/ \E id \in KnownIds, newName \in CloneNames, actor \in CloneActors :
             Invoke(g, "Clone", "wantLock", id, actor,
                    [ZeroGameDNA EXCEPT !.Name = newName])
       \/ Proceeds(g)

\* The scheduler runs every goroutine that can run, and sync.RWMutex hands
\* the mutex to a goroutine that waits for it once it is free.
SpecLocksFair ==
    Init /\ [][NextLocksFair]_vars /\ \A g \in Goroutines : WF_vars(Proceeds(g))

\* ------------------------------------------------------- Migrate, by statement
MigrateError ==
    [record |-> "record migration",
     check |-> "check migration applied",
     createTable |-> "create schema_migrations",
     begin |-> "begin tx",
     execUp |-> "apply migration",
     commit |-> "commit migration"]

\* Mutant: the runner finds no unit recorded.
Recorded_Never(r, name) == name \in {}

\* SELECT EXISTS (SELECT 1 FROM schema_migrations WHERE name = $1)
Recorded(r, name) == name \in r.schema_migrations

\* Mutant: what the transaction executed stays in the schema.
Rollback_KeepsUp(r) ==
    [r EXCEPT !.applied = [name \in Units |->
                             IF name \in r.tx.up THEN @[name] + 1 ELSE @[name]],
              !.tx = NoTx]

Rollback(r) == [r EXCEPT !.tx = NoTx]

RECURSIVE SortStrings(_)
SortStrings(S) ==
    IF S = {} THEN <<>>
    ELSE LET least == CHOOSE x \in S : \A y \in S : x <= y
         IN <<least>> \o SortStrings(S \ {least})

\* Mutant: the names are taken in the reverse of their order.
names_Unsorted == [k \in 1..NumUnits |-> NumUnits + 1 - k]

\* The names of the units after sort.Strings(names).
names == SortStrings(Units)

Commit(r) ==
    [r EXCEPT !.schema_migrations = @ \cup r.tx.record,
              !.applied = [name \in Units |->
                             IF name \in r.tx.up THEN @[name] + 1 ELSE @[name]],
              !.tx = NoTx,
              !.failedAt = IF @ \in r.tx.record THEN 0 ELSE @]

\* The unit whose Up SQL or INSERT failed is kept for the record.
Failed(r) ==
    IF r.pc \in {"execUp", "record"} THEN [r EXCEPT !.failedAt = names[r.i]] ELSE r

MigrateReturns(r, err) == [r EXCEPT !.pc = "idle", !.err = err]

\* The end of one round of the loop over names.
NextName(r) ==
    IF r.i = Len(names) THEN MigrateReturns(r, OK)
    ELSE [r EXCEPT !.i = @ + 1, !.pc = "check"]

Others ==
    <<mem, pg, now, uuidCount, mutations, last, published, calls, audit, boot>>

\* Migrate is called.
Started(r) ==
    [r EXCEPT !.pc = "createTable", !.i = 0, !.runs = @ + 1, !.execInRun = 0,
              !.complete = r.table /\ Units \subseteq r.schema_migrations]

\* CREATE TABLE IF NOT EXISTS schema_migrations, ReadDir and sort.Strings.
CreateTable(r) ==
    IF Len(names) = 0
    THEN MigrateReturns([r EXCEPT !.table = TRUE], OK)
    ELSE [r EXCEPT !.table = TRUE, !.pc = "check", !.i = 1]

\* The check of one name, and the reading of its file.  The SELECT sees
\* what is committed.
CheckApplied(r) ==
    IF Recorded(r, names[r.i]) THEN NextName(r)
    ELSE IF extractUpSQL(migrationsFS[names[r.i]]) = <<>>
    THEN MigrateReturns(r, "migration has no Up SQL")
    ELSE [r EXCEPT !.pc = "begin"]

BeginTx(r) == [r EXCEPT !.tx = [NoTx EXCEPT !.open = TRUE], !.pc = "execUp"]

\* tx.ExecContext(ctx, upSQL)
ExecUp(r) ==
    [r EXCEPT !.tx.up = @ \cup {names[r.i]},
              !.executed[names[r.i]] = @ + 1,
              !.execInRun = @ + 1,
              !.pc = "record"]

\* The INSERT waits while the transaction of another process holds the
\* same name uncommitted.
Waits(r) == names[r.i] \in r.peer.tx.record

\* INSERT INTO schema_migrations (name) VALUES ($1); name is the primary key.
InsertName(r) ==
    IF names[r.i] \in r.schema_migrations
    THEN MigrateReturns(Rollback(Failed(r)), MigrateError.record)
    ELSE [r EXCEPT !.tx.record = @ \cup {names[r.i]}, !.pc = "commit"]

\* The process starts and calls Migrate with the pool of the database.
MigrateStart ==
    /\ runner.pc = "idle"
    /\ runner.runs < MaxRuns
    /\ runner' = Started(runner)
    /\ UNCHANGED Others

MigrateCreateTable ==
    /\ runner.pc = "createTable"
    /\ runner' = CreateTable(runner)
    /\ UNCHANGED Others

MigrateCheck ==
    /\ runner.pc = "check"
    /\ runner' = CheckApplied(runner)
    /\ UNCHANGED Others

MigrateBeginTx ==
    /\ runner.pc = "begin"
    /\ runner' = BeginTx(runner)
    /\ UNCHANGED Others

MigrateExecUp ==
    /\ runner.pc = "execUp"
    /\ runner' = ExecUp(runner)
    /\ UNCHANGED Others

MigrateRecord ==
    /\ runner.pc = "record"
    /\ ~Waits(runner)
    /\ runner' = InsertName(runner)
    /\ UNCHANGED Others

MigrateCommit ==
    /\ runner.pc = "commit"
    /\ runner' = NextName(Commit(runner))
    /\ UNCHANGED Others

\* A statement fails (the context's 30 seconds are over, the connection is
\* lost, the process is stopped): what the transaction did is rolled back.
MigrateFails ==
    /\ runner.pc # "idle"
    /\ runner.faults < MaxMigrateFaults
    /\ runner' = [MigrateReturns(Rollback(Failed(runner)), MigrateError[runner.pc])
                    EXCEPT !.faults = @ + 1]
    /\ UNCHANGED Others

\* Commit returns an error after the server committed.
MigrateCommitUnanswered ==
    /\ runner.pc = "commit"
    /\ runner.faults < MaxMigrateFaults
    /\ runner' = [MigrateReturns(Commit(runner), MigrateError.commit)
                    EXCEPT !.faults = @ + 1]
    /\ UNCHANGED Others

NextMigrate ==
    \/ MigrateStart
    \/ MigrateCreateTable
    \/ MigrateCheck
    \/ MigrateBeginTx
    \/ MigrateExecUp
    \/ MigrateRecord
    \/ MigrateCommit
    \/ MigrateFails
    \/ MigrateCommitUnanswered

SpecMigrate == Init /\ [][NextMigrate]_vars

\* -------------------------------------------- Migrate, two processes at once
\* The same database seen from the other process: what a process keeps for
\* itself (where it stands, its transaction, what its run returned) changes
\* places with runner.peer.
Swap(r) ==
    [r EXCEPT !.pc = r.peer.pc, !.i = r.peer.i, !.tx = r.peer.tx, !.err = r.peer.err,
              !.peer = [i |-> r.i, err |-> r.err, tx |-> r.tx, pc |-> r.pc]]

PeerWaits(r) == Waits(Swap(r))

\* A second server process starts and calls Migrate on the same database.
PeerStart ==
    /\ runner.peer.pc = "idle"
    /\ runner.runs < MaxRuns
    /\ runner' = Swap(Started(Swap(runner)))
    /\ UNCHANGED Others

PeerCreateTable ==
    /\ runner.peer.pc = "createTable"
    /\ runner' = Swap(CreateTable(Swap(runner)))
    /\ UNCHANGED Others

PeerCheck ==
    /\ runner.peer.pc = "check"
    /\ runner' = Swap(CheckApplied(Swap(runner)))
    /\ UNCHANGED Others

PeerBeginTx ==
    /\ runner.peer.pc = "begin"
    /\ runner' = Swap(BeginTx(Swap(runner)))
    /\ UNCHANGED Others

PeerExecUp ==
    /\ runner.peer.pc = "execUp"
    /\ runner' = Swap(ExecUp(Swap(runner)))
    /\ UNCHANGED Others

PeerRecord ==
    /\ runner.peer.pc = "record"
    /\ ~PeerWaits(runner)
    /\ runner' = Swap(InsertName(Swap(runner)))
    /\ UNCHANGED Others

PeerCommit ==
    /\ runner.peer.pc = "commit"
    /\ runner' = Swap(NextName(Commit(Swap(runner))))
    /\ UNCHANGED Others

NextMigrate2 ==
    \/ MigrateStart
    \/ MigrateCreateTable
    \/ MigrateCheck
    \/ MigrateBeginTx
    \/ MigrateExecUp
    \/ MigrateRecord
    \/ MigrateCommit
    \/ PeerStart
    \/ PeerCreateTable
    \/ PeerCheck
    \/ PeerBeginTx
    \/ PeerExecUp
    \/ PeerRecord
    \/ PeerCommit

SpecMigrate2 == Init /\ [][NextMigrate2]_vars

\* ------------------------------------------------------- run, from the start
\* Mutant: the flag is not looked at.
Unreachable_FallsBack(b) == [b EXCEPT !.ping = "failed", !.store = "memory", !.pc = "ready"]

\* NewPostgresStore returned an error.
Unreachable(b) ==
    IF b.useFallback
    THEN [b EXCEPT !.ping = "failed", !.store = "memory", !.pc = "ready"]
    ELSE [b EXCEPT !.ping = "failed", !.pc = "exited", !.err = ErrConnect]

\* Mutant: a failed migration is treated as an unreachable database.
Migrated_FallsBack(b, err) ==
    IF err # OK THEN [Unreachable(b) EXCEPT !.ping = "ok"]
    ELSE [b EXCEPT !.store = "postgres", !.pc = "ready"]

\* Migrate returned err.
Migrated(b, err) ==
    IF err # OK THEN [b EXCEPT !.pc = "exited", !.err = ErrMigrations]
    ELSE [b EXCEPT !.store = "postgres", !.pc = "ready"]

Stores == <<mem, pg, now, uuidCount, mutations, last, published, calls, audit>>

\* A process is started: config.Load and cfg.Validate.
RunLoad(url, useFallback) ==
    /\ boot.pc \in {"off", "exited"}
    /\ boot.boots < MaxBoots
    /\ boot' = [NewBoot EXCEPT !.pc = "storage", !.url = url,
                               !.useFallback = useFallback, !.boots = boot.boots + 1]
    /\ UNCHANGED <<Stores, runner>>

RunMemory ==
    /\ boot.pc = "storage"
    /\ boot.url \in MemoryURLs
    /\ boot' = [boot EXCEPT !.store = "memory", !.pc = "ready"]
    /\ UNCHANGED <<Stores, runner>>

\* NewPostgresStore returns a store, and Migrate is called.
RunConnect ==
    /\ boot.pc = "storage"
    /\ boot.url \notin MemoryURLs
    /\ runner.runs < MaxRuns
    /\ boot' = [boot EXCEPT !.ping = "ok", !.pc = "migrating"]
    /\ runner' = Started(runner)
    /\ UNCHANGED Stores

RunConnectFails ==
    /\ boot.pc = "storage"
    /\ boot.url \notin MemoryURLs
    /\ boot' = Unreachable(boot)
    /\ UNCHANGED <<Stores, runner>>

RunMigrated ==
    /\ boot.pc = "migrating"
    /\ runner.pc = "idle"
    /\ boot' = Migrated(boot, runner.err)
    /\ UNCHANGED <<Stores, runner>>

\* NewGameDNAServiceServer(store, ...), net.Listen and Serve.
RunListen ==
    /\ boot.pc = "ready"
    /\ boot' = [boot EXCEPT !.pc = "serving"]
    /\ UNCHANGED <<Stores, runner>>

RunListenFails ==
    /\ boot.pc = "ready"
    /\ boot' = [boot EXCEPT !.pc = "exited", !.err = ErrListen]
    /\ UNCHANGED <<Stores, runner>>

\* A handler calls s.store; the database may be out of reach by now.
Serve(reachable) ==
    /\ boot.pc = "serving"
    /\ boot.served < MaxServed
    /\ boot' = [boot EXCEPT
                  !.served = @ + 1,
                  !.lastCall = [err |-> IF boot.store = "postgres" /\ ~reachable
                                        THEN ErrUnavailable ELSE OK,
                                store |-> boot.store]]
    /\ UNCHANGED <<Stores, runner>>

\* SIGTERM.
RunShutdown ==
    /\ boot.pc = "serving"
    /\ boot' = [boot EXCEPT !.pc = "exited"]
    /\ UNCHANGED <<Stores, runner>>

NextRun ==
    \/ \E url \in DatabaseURLs, useFallback \in BOOLEAN : RunLoad(url, useFallback)
    \/ RunMemory
    \/ RunConnect
    \/ RunConnectFails
    \/ RunMigrated
    \/ RunListen
    \/ RunListenFails
    \/ \E reachable \in BOOLEAN : Serve(reachable)
    \/ RunShutdown
    \/ MigrateCreateTable
    \/ MigrateCheck
    \/ MigrateBeginTx
    \/ MigrateExecUp
    \/ MigrateRecord
    \/ MigrateCommit
    \/ MigrateFails
    \/ MigrateCommitUnanswered

SpecRun == Init /\ [][NextRun]_vars

TypeOK ==
    /\ now \in 1..MaxTime
    /\ mutations \in 0..MaxMutations
    /\ uuidCount \in 0..MaxMutations

\* ----------------------------------------------------------------- claims
\* A step is a store call of kind op: every call and every tick rewrites
\* last, so in a step that changes the state last' describes that step.
MemLocked(id) == id \in DOMAIN mem.configs /\ MemConfig(mem, id).IsLocked

PgLocked(id) == id \in DOMAIN pg.configs /\ PgConfig(pg, id).IsLocked

AllIds == CallerIds \cup {-k : k \in 1..MaxMutations + 1}

Gapless(h) == \A i \in 1..Len(h) : h[i].VersionNum = i

\* The step touches config id: it is a call on id, or the clone that made id.
Touches(l, id) == l.id = id \/ (l.op = "Clone" /\ l.v = id)

\* C1: in both backends the version numbers of every history are exactly
\* 1..n in order; a successful Update or RollbackToVersion adds exactly one
\* snapshot to the history of its config, and a call on another config
\* leaves the length of the history unchanged.
C1_Step ==
    \A id \in AllIds :
       /\ id \in DOMAIN mem'.versions => Gapless(MemHistory(mem', id))
       /\ id \in DOMAIN pg'.configs => Gapless(PgHistory(pg', id))
       /\ last'.op \in {"Update", "RollbackToVersion"} /\ last'.id = id =>
            /\ last'.memErr = OK =>
                 /\ id \in DOMAIN mem.versions
                 /\ Len(mem'.versions[id]) = Len(mem.versions[id]) + 1
            /\ last'.pgErr = OK =>
                 /\ id \in DOMAIN pg.configs
                 /\ Len(PgHistory(pg', id)) = Len(PgHistory(pg, id)) + 1
       /\ ~Touches(last', id) =>
            /\ id \in DOMAIN mem.versions =>
                 /\ id \in DOMAIN mem'.versions
                 /\ Len(mem'.versions[id]) = Len(mem.versions[id])
            /\ id \in DOMAIN pg.configs =>
                 /\ id \in DOMAIN pg'.configs
                 /\ Len(PgHistory(pg', id)) = Len(PgHistory(pg, id))

C1_VersionNumbersGapless == [][C1_Step]_vars

\* Two successful updates or rollbacks of one config, in both backends.
C1_Witness ==
    /\ last.op \in {"Update", "RollbackToVersion"}
    /\ last.memErr = OK /\ last.pgErr = OK
    /\ Len(mem.versions[last.id]) = 3
    /\ Len(PgHistory(pg, last.id)) = 3

\* C9: right after a successful Create the history of the created config is
\* one snapshot, numbered 1, whose data equals the created config.
C9_CreateHistory ==
    last.op = "Create" =>
       /\ last.memErr = OK =>
            /\ Len(MemHistory(mem, last.id)) = 1
            /\ MemHistory(mem, last.id)[1].VersionNum = 1
            /\ MemHistory(mem, last.id)[1].Data = MemConfig(mem, last.id)
            /\ last.memRet = <<MemConfig(mem, last.id)>>
       /\ last.pgErr = OK =>
            /\ Len(PgHistory(pg, last.id)) = 1
            /\ PgHistory(pg, last.id)[1].VersionNum = 1
            /\ PgHistory(pg, last.id)[1].Data = PgConfig(pg, last.id)
            /\ last.pgRet = <<PgConfig(pg, last.id)>>

\* A Create with a caller-chosen id that succeeds in both backends after
\* other configs went in.
C9_Witness ==
    /\ last.op = "Create" /\ last.memErr = OK /\ last.pgErr = OK
    /\ last.id \in CallerIds
    /\ Cardinality(DOMAIN pg.configs) >= 2

\* C2: an Update of a config that Read shows as locked fails with Locked
\* and leaves the store as it was, in both backends.
C2_Step ==
    last'.op = "Update" =>
       /\ MemLocked(last'.id) => IsLocked(last'.memErr) /\ mem' = mem
       /\ PgLocked(last'.id) => IsLocked(last'.pgErr) /\ pg' = pg

C2_UpdateLockedFails == [][C2_Step]_vars

\* C3: a config locked by a successful PublishVersion reads as locked in
\* every later state, until it is deleted.
C3_LockIrreversible ==
    /\ \A id \in published.mem : MemLocked(id)
    /\ \A id \in published.pg : PgLocked(id)

\* C4: RollbackToVersion to an existing version of a locked config fails
\* with Locked and leaves the store as it was, in both backends.
C4_Step ==
    last'.op = "RollbackToVersion" =>
       /\ (/\ MemLocked(last'.id)
           /\ last'.v \in 1..Len(mem.versions[last'.id]))
            => IsLocked(last'.memErr) /\ mem' = mem
       /\ (/\ PgLocked(last'.id)
           /\ last'.v \in 1..Len(PgHistory(pg, last'.id)))
            => IsLocked(last'.pgErr) /\ pg' = pg

C4_RollbackLockedRejected == [][C4_Step]_vars

\* The fields RollbackToVersion takes over from the snapshot.
RestoredFields == Fields \ {"LastModified", "CreatedBy"}

SameOn(fs, c, d) == \A f \in fs : c[f] = d[f]

Restored(before, after, v) ==
    LET n == Len(before)
    IN /\ v \in 1..n
       /\ Len(after) = n + 1
       /\ after[n + 1].VersionNum = n + 1
       /\ after[n + 1].VersionNum # v
       /\ SameOn(RestoredFields, after[n + 1].Data, before[v].Data)

\* C5: after a successful RollbackToVersion(id, v) on a config with n
\* snapshots, Read(id) gives the fields of snapshot v, and the history has
\* n + 1 snapshots, the newest numbered n + 1 and holding what Read gives.
C5_Step ==
    last'.op = "RollbackToVersion" =>
       /\ last'.memErr = OK =>
            /\ Restored(MemHistory(mem, last'.id), MemHistory(mem', last'.id), last'.v)
            /\ MemHistory(mem', last'.id)[Len(mem'.versions[last'.id])].Data
                 = MemConfig(mem', last'.id)
            /\ MemRead(mem', last'.id).err = OK
       /\ last'.pgErr = OK =>
            /\ Restored(PgHistory(pg, last'.id), PgHistory(pg', last'.id), last'.v)
            /\ PgHistory(pg', last'.id)[Len(PgHistory(pg', last'.id))].Data
                 = PgRead(pg', last'.id).ret[1]

C5_RollbackRestores == [][C5_Step]_vars

\* A rollback to version 1 of a config whose version 2 differs from it, done
\* later than the update, successful in both backends.
C5_Witness ==
    /\ last.op = "RollbackToVersion" /\ last.v = 1
    /\ last.memErr = OK /\ last.pgErr = OK
    /\ MemHistory(mem, last.id)[2].Data.Genre # MemHistory(mem, last.id)[1].Data.Genre
    /\ MemHistory(mem, last.id)[2].Data.Tags # <<>>
    /\ MemConfig(mem, last.id).Tags = <<>>
    /\ PgConfig(pg, last.id).Genre = PgHistory(pg, last.id)[1].Data.Genre

\* C6: a snapshot, once in a history, stays there with the same number and
\* data until its config is deleted.
C6_Step ==
    \A id \in AllIds :
       ~(last'.op = "Delete" /\ last'.id = id) =>
          /\ id \in DOMAIN mem.versions =>
               /\ id \in DOMAIN mem'.versions
               /\ \A i \in 1..Len(mem.versions[id]) :
                    /\ i <= Len(mem'.versions[id])
                    /\ MemHistory(mem', id)[i].VersionNum = MemHistory(mem, id)[i].VersionNum
                    /\ MemHistory(mem', id)[i].Data = MemHistory(mem, id)[i].Data
          /\ \A i \in 1..Len(PgHistory(pg, id)) :
               /\ i <= Len(PgHistory(pg', id))
               /\ PgHistory(pg', id)[i] = PgHistory(pg, id)[i]

C6_SnapshotsAppendOnly == [][C6_Step]_vars

\* C7: a successful PublishVersion locks the config and leaves its history,
\* numbers and data, as it was.
C7_Step ==
    last'.op = "PublishVersion" =>
       /\ last'.memErr = OK =>
            /\ MemConfig(mem', last'.id).IsLocked
            /\ MemHistory(mem', last'.id) = MemHistory(mem, last'.id)
       /\ last'.pgErr = OK =>
            /\ PgConfig(pg', last'.id).IsLocked
            /\ PgHistory(pg', last'.id) = PgHistory(pg, last'.id)

C7_PublishKeepsHistory == [][C7_Step]_vars

\* C8: PublishVersion of a config that reads as locked fails with a
\* Locked/Conflict error and leaves the store as it was.
C8_Step ==
    last'.op = "PublishVersion" =>
       /\ MemLocked(last'.id) =>
            /\ IsLockedOrConflict(last'.memErr)
            /\ MemConfig(mem', last'.id) = MemConfig(mem, last'.id)
            /\ MemHistory(mem', last'.id) = MemHistory(mem, last'.id)
            /\ mem' = mem
       /\ PgLocked(last'.id) =>
            /\ IsLockedOrConflict(last'.pgErr)
            /\ PgConfig(pg', last'.id) = PgConfig(pg, last'.id)
            /\ PgHistory(pg', last'.id) = PgHistory(pg, last'.id)
            /\ pg' = pg

C8_RepublishFails == [][C8_Step]_vars

\* A second PublishVersion, by another actor and at a later time than the
\* first, refused by both backends.
C8_Witness ==
    /\ last.op = "PublishVersion"
    /\ last.memErr = ErrAlreadyLocked /\ last.pgErr = ErrAlreadyLocked
    /\ last.id \in published.mem /\ last.id \in published.pg
    /\ MemConfig(mem, last.id).LastModified < now
    /\ PgConfig(pg, last.id).LastModified < now
    /\ MemConfig(mem, last.id).CreatedBy = "alice"

\* The fields Clone copies from the source.
ClonedFields == {"Version", "Genre", "Tags"}

IsCloneOf(c, source, newId, h) ==
    /\ c.Id = newId
    /\ c.Name \in CloneNames
    /\ ~c.IsLocked
    /\ c.Checksum = ""
    /\ SameOn(ClonedFields, c, source)
    /\ Len(h) = 1
    /\ h[1].VersionNum = 1

\* C10: a successful Clone stores and returns a config under an id that no
\* config had, with the new name, unlocked, with a blank checksum and the
\* source's other fields, and with a history of one snapshot numbered 1.
C10_Step ==
    last'.op = "Clone" =>
       /\ last'.memErr = OK =>
            /\ last'.v # last'.id
            /\ last'.v \notin DOMAIN mem.configs
            /\ last'.v \in DOMAIN mem'.configs
            /\ IsCloneOf(MemConfig(mem', last'.v), MemConfig(mem, last'.id),
                         last'.v, MemHistory(mem', last'.v))
            /\ last'.memRet = <<MemConfig(mem', last'.v)>>
       /\ last'.pgErr = OK =>
            /\ last'.v # last'.id
            /\ last'.v \notin DOMAIN pg.configs
            /\ last'.v \in DOMAIN pg'.configs
            /\ IsCloneOf(PgConfig(pg', last'.v), PgConfig(pg, last'.id),
                         last'.v, PgHistory(pg', last'.v))
            /\ last'.pgRet = <<PgConfig(pg', last'.v)>>

IsClone(h) == Len(h) >= 1 /\ h[1].CreatedBy \in CloneActors

\* C11: an Update, RollbackToVersion, PublishVersion or Delete of one config
\* leaves the config and the history of every other config as they were, in
\* both backends; so a clone and its source do not affect each other.
C11_Step ==
    last'.op \in {"Update", "RollbackToVersion", "PublishVersion", "Delete"} =>
       \A id \in AllIds \ {last'.id} :
          /\ id \in DOMAIN mem.configs =>
               /\ id \in DOMAIN mem'.configs
               /\ MemConfig(mem', id) = MemConfig(mem, id)
               /\ MemHistory(mem', id) = MemHistory(mem, id)
          /\ id \in DOMAIN pg.configs =>
               /\ id \in DOMAIN pg'.configs
               /\ PgConfig(pg', id) = PgConfig(pg, id)
               /\ pg'.configs[id] = pg.configs[id]
               /\ PgHistory(pg', id) = PgHistory(pg, id)

C11_CloneIndependent == [][C11_Step]_vars

\* The source of a clone was published, in both backends, while the clone
\* is in the store.
C11_Witness ==
    /\ last.op = "PublishVersion" /\ last.memErr = OK /\ last.pgErr = OK
    /\ ~IsClone(MemHistory(mem, last.id))
    /\ \E c \in DOMAIN mem.configs \cap DOMAIN pg.configs :
          /\ c # last.id
          /\ IsClone(MemHistory(mem, c)) /\ IsClone(PgHistory(pg, c))
          /\ ~MemConfig(mem, c).IsLocked

\* Every call by id on the store st fails with NotFound for this id.
MemAllNotFound(id) ==
    /\ IsNotFound(MemRead(mem, id).err)
    /\ \A tpl \in UpdateTemplates : IsNotFound(MemUpdate(mem, MkInput(id, tpl), now).err)
    /\ IsNotFound(MemGetVersionHistory(mem, id).err)
    /\ \A v \in VersionNums, actor \in Actors :
          IsNotFound(MemRollbackToVersion(mem, id, v, actor, now).err)
    /\ \A actor \in Actors : IsNotFound(MemPublishVersion(mem, id, actor, now).err)
    /\ \A newName \in CloneNames, actor \in CloneActors :
          IsNotFound(MemClone(mem, id, newName, actor, NewUuid, now).err)
    /\ IsNotFound(MemDelete(mem, id).err)

PgAllNotFound(id) ==
    /\ IsNotFound(PgRead(pg, id).err)
    /\ \A tpl \in UpdateTemplates : IsNotFound(PgUpdate(pg, MkInput(id, tpl), now).err)
    /\ IsNotFound(PgGetVersionHistory(pg, id).err)
    /\ \A v \in VersionNums, actor \in Actors :
          IsNotFound(PgRollbackToVersion(pg, id, v, actor, now).err)
    /\ \A actor \in Actors : IsNotFound(PgPublishVersion(pg, id, actor, now).err)
    /\ \A newName \in CloneNames, actor \in CloneActors :
          IsNotFound(PgClone(pg, id, newName, actor, NewUuid, now).err)
    /\ IsNotFound(PgDelete(pg, id).err)

\* List with no filter and the default page neither returns nor counts id.
MemNotListed(id) ==
    \A order \in Orders(DOMAIN mem.configs) :
       LET r == MemList(mem, NoFilters, [Page |-> 0, PageSize |-> 0], order)
       IN /\ r.err = OK
          /\ r.ret[2] = Cardinality(DOMAIN mem.configs \ {id})
          /\ \A i \in 1..Len(r.ret[1]) : mem.heap[r.ret[1][i]].Id # id

PgNotListed(id) ==
    \A order \in {o \in Orders(DOMAIN pg.configs) : PgOrderAllowed(pg, o)} :
       LET r == PgList(pg, NoFilters, [Page |-> 0, PageSize |-> 0], order)
       IN /\ r.err = OK
          /\ r.ret[2] = Cardinality(DOMAIN pg.configs \ {id})
          /\ \A i \in 1..Len(r.ret[1]) : r.ret[1][i].Id # id

\* C12: right after a successful Delete(id) the config and its snapshots
\* are gone, every call by that id fails with NotFound, and List neither
\* returns nor counts it, in both backends.
C12_DeletedIsGone ==
    last.op = "Delete" =>
       /\ last.memErr = OK =>
            /\ last.id \notin DOMAIN mem.configs
            /\ last.id \notin DOMAIN mem.versions
            /\ MemAllNotFound(last.id)
            /\ MemNotListed(last.id)
       /\ last.pgErr = OK =>
            /\ last.id \notin DOMAIN pg.configs
            /\ \A row \in pg.versions : row.config_id # last.id
            /\ PgAllNotFound(last.id)
            /\ PgNotListed(last.id)

\* C13: Read, Update, Delete, PublishVersion, Clone and RollbackToVersion of
\* an id that is not in the store fail with NotFound and leave the store as
\* it was, in both backends.
C13_Step ==
    last'.op \in {"Read", "Update", "Delete", "PublishVersion", "Clone",
                  "RollbackToVersion"} =>
       /\ last'.id \notin DOMAIN mem.configs =>
            IsNotFound(last'.memErr) /\ mem' = mem
       /\ last'.id \notin DOMAIN pg.configs =>
            IsNotFound(last'.pgErr) /\ pg' = pg

C14_HistoryOfUnknownFails ==
    last.op = "GetVersionHistory" =>
       /\ last.id \notin DOMAIN mem.configs => IsNotFound(last.memErr)
       /\ last.id \notin DOMAIN pg.configs => IsNotFound(last.pgErr)
       /\ last.memErr = OK => last.memRet # <<>>
       /\ last.pgErr = OK => last.pgRet # <<>>

VersionNumsOf(h) == {h[i].VersionNum : i \in 1..Len(h)}

\* C15: RollbackToVersion of an existing config to a number that none of
\* its snapshots has fails with NotFound and leaves the store as it was, in
\* both backends.
C15_Step ==
    last'.op = "RollbackToVersion" =>
       /\ (/\ last'.id \in DOMAIN mem.configs
           /\ last'.v \notin VersionNumsOf(MemHistory(mem, last'.id)))
            => IsNotFound(last'.memErr) /\ mem' = mem
       /\ (/\ last'.id \in DOMAIN pg.configs
           /\ last'.v \notin VersionNumsOf(PgHistory(pg, last'.id)))
            => IsNotFound(last'.pgErr) /\ pg' = pg

Kind(e) ==
    IF e = OK THEN "success"
    ELSE IF IsNotFound(e) THEN "NotFound"
    ELSE IF IsLocked(e) THEN "Locked"
    ELSE IF e = ErrAlreadyLocked THEN "Conflict"
    ELSE "failure"

\* The (versionNumber, data) pairs of a history, in order.
NumbersAndData(h) ==
    [i \in 1..Len(h) |-> [VersionNum |-> h[i].VersionNum, Data |-> h[i].Data]]

\* C16: after every call the two backends returned the same kind of outcome
\* and hold the same ids, each with the same lock state and the same history
\* of (versionNumber, data).
C16_BackendsAgree ==
    /\ Kind(last.memErr) = Kind(last.pgErr)
    /\ DOMAIN mem.configs = DOMAIN pg.configs
    /\ \A id \in DOMAIN mem.configs \cap DOMAIN pg.configs :
          /\ MemConfig(mem, id).IsLocked = PgConfig(pg, id).IsLocked
          /\ NumbersAndData(MemHistory(mem, id)) = NumbersAndData(PgHistory(pg, id))

\* What Update has to leave in the store for input c: the stored config is
\* c in every field but lastModified, and the history is the old one plus
\* one snapshot holding the stored config.
Replaced(c, stored, before, after) ==
    /\ stored.Id = c.Id
    /\ SameOn(Fields \ {"LastModified"}, stored, c)
    /\ Len(after) = Len(before) + 1
    /\ SubSeq(after, 1, Len(before)) = before
    /\ after[Len(after)].Data = stored

\* C17: after a successful Update(c), Read(c.id) gives c in every field but
\* lastModified, and the history has one more snapshot, holding what Read
\* gives, in both backends.
C17_Step ==
    last'.op = "Update" =>
       /\ last'.memErr = OK =>
            /\ MemRead(mem', last'.id).err = OK
            /\ Replaced(last'.arg, mem'.heap[MemRead(mem', last'.id).ret],
                        MemHistory(mem, last'.id), MemHistory(mem', last'.id))
       /\ last'.pgErr = OK =>
            /\ PgRead(pg', last'.id).err = OK
            /\ Replaced(last'.arg, PgRead(pg', last'.id).ret[1],
                        PgHistory(pg, last'.id), PgHistory(pg', last'.id))

C17_UpdateReplaces == [][C17_Step]_vars

\* An Update, successful in both backends, of a config that had tags, a
\* creation time and another genre and checksum, by an input without tags
\* and creation time.
C17_Witness ==
    /\ last.op = "Update" /\ last.memErr = OK /\ last.pgErr = OK
    /\ last.arg.Tags = <<>> /\ last.arg.CreatedAt = 0
    /\ LET before == PgHistory(pg, last.id)[Len(PgHistory(pg, last.id)) - 1].Data
       IN /\ before.Tags # <<>>
          /\ before.CreatedAt # 0
          /\ before.Name # last.arg.Name
          /\ before.IsLocked # last.arg.IsLocked
    /\ PgConfig(pg, last.id).Tags = <<>>
    /\ MemConfig(mem, last.id).CreatedAt = 0

\* The version Create stores for an input.
VersionOf(c) == IF c.Version = "" THEN DefaultVersion ELSE c.Version

\* A stored config other than id holds the pair (name, version).
MemPairTaken(id, name, version) ==
    \E k \in DOMAIN mem.configs \ {id} :
       MemConfig(mem, k).Name = name /\ MemConfig(mem, k).Version = version

PgPairTaken(id, name, version) ==
    \E k \in DOMAIN pg.configs \ {id} :
       pg.configs[k].name = name /\ pg.configs[k].version = version

C18_Step ==
    last'.op = "Create" =>
       /\ last'.memErr = OK
       /\ last'.id \in DOMAIN mem'.configs
       /\ last'.pgErr = OK <=>
             ~(\/ last'.id \in DOMAIN pg.configs
               \/ PgPairTaken(last'.id, last'.arg.Name, VersionOf(last'.arg)))
       /\ last'.pgErr = OK => last'.id \in DOMAIN pg'.configs
       /\ last'.pgErr # OK => pg' = pg

IsConflict(e) == e \in {ErrCreateFailed, ErrUpdateFailed}

\* C19: a Create, Clone or Update that would give a config the (name,
\* version) pair of another stored config fails with a conflict error and
\* leaves the store as it was, in both backends.
C19_Step ==
    /\ last'.op = "Create" =>
         /\ MemPairTaken(last'.id, last'.arg.Name, VersionOf(last'.arg))
              => IsConflict(last'.memErr) /\ mem' = mem
         /\ PgPairTaken(last'.id, last'.arg.Name, VersionOf(last'.arg))
              => IsConflict(last'.pgErr) /\ pg' = pg
    /\ last'.op = "Update" =>
         /\ (/\ last'.id \in DOMAIN mem.configs
             /\ ~MemLocked(last'.id)
             /\ MemPairTaken(last'.id, last'.arg.Name, last'.arg.Version))
              => IsConflict(last'.memErr) /\ mem' = mem
         /\ (/\ last'.id \in DOMAIN pg.configs
             /\ ~pg.configs[last'.id].is_locked
             /\ PgPairTaken(last'.id, last'.arg.Name, last'.arg.Version))
              => IsConflict(last'.pgErr) /\ pg' = pg
    /\ last'.op = "Clone" =>
         \A newName \in CloneNames :
            /\ (/\ last'.id \in DOMAIN mem.configs
                /\ MemPairTaken(last'.v, newName, MemConfig(mem, last'.id).Version))
                 => IsConflict(last'.memErr) /\ mem' = mem
            /\ (/\ last'.id \in DOMAIN pg.configs
                /\ PgPairTaken(last'.v, newName, PgConfig(pg, last'.id).Version))
                 => IsConflict(last'.pgErr) /\ pg' = pg

C19_DuplicatePairRejected == [][C19_Step]_vars

\* A config matches the filters of List.
Matches(dna, filters) ==
    /\ filters.Genre # "" => dna.Genre = filters.Genre
    /\ filters.NameFilter # "" =>
          Contains(ToLower(dna.Name), ToLower(filters.NameFilter))
    /\ HasAllTags(dna.Tags, filters.Tags)

Min(a, b) == IF a <= b THEN a ELSE b

\* min(s, max(0, n - (p-1)*s)) for p >= 1 and s >= 1, in unbounded integers.
PageLength(n, p, s) ==
    IF p = 1 THEN Min(s, n)
    ELSE IF s >= n THEN 0
    ELSE Min(s, IF n - (p - 1) * s > 0 THEN n - (p - 1) * s ELSE 0)

\* C20: with n configs matching the filters, List of page p >= 1 with page
\* size s >= 1 returns min(s, max(0, n - (p-1)*s)) items and total n, in
\* both backends.
C20_ListPagination ==
    (/\ last.op = "List"
     /\ last.arg.pagination.Page >= 1
     /\ last.arg.pagination.PageSize >= 1) =>
       LET filters == last.arg.filters
           p == last.arg.pagination.Page
           sz == last.arg.pagination.PageSize
           nMem == Cardinality({id \in DOMAIN mem.configs :
                                   Matches(MemConfig(mem, id), filters)})
           nPg == Cardinality({id \in DOMAIN pg.configs :
                                  Matches(PgConfig(pg, id), filters)})
       IN /\ last.memErr = OK
          /\ Len(last.memRet[1]) = PageLength(nMem, p, sz)
          /\ last.memRet[2] = nMem
          /\ last.pgErr = OK
          /\ Len(last.pgRet[1]) = PageLength(nPg, p, sz)
          /\ last.pgRet[2] = nPg

\* The configs of the in-memory backend that match the filters.
MemMatching(filters) ==
    {id \in DOMAIN mem.configs : Matches(MemConfig(mem, id), filters)}

\* The configs of the relational backend that match the filters.
PgMatching(filters) ==
    {id \in DOMAIN pg.configs : Matches(PgConfig(pg, id), filters)}

\* C21: a List that succeeds counts in total exactly the stored configs that
\* match the genre filter and the name filter (case-insensitive substring)
\* and the tag filter, and every item it returns is one of those configs, in
\* both backends.
C21_ListFiltersConjunctive ==
    last.op = "List" =>
       /\ last.memErr = OK =>
            /\ last.memRet[2] = Cardinality(MemMatching(last.arg.filters))
            /\ \A i \in 1..Len(last.memRet[1]) :
                  \E id \in MemMatching(last.arg.filters) :
                     last.memRet[1][i] = MemConfig(mem, id)
       /\ last.pgErr = OK =>
            /\ last.pgRet[2] = Cardinality(PgMatching(last.arg.filters))
            /\ \A i \in 1..Len(last.pgRet[1]) :
                  \E id \in PgMatching(last.arg.filters) :
                     last.pgRet[1][i] = PgConfig(pg, id)

\* C22: a second List with the same filters and pagination, made on the
\* store as the first one left it, returns the same items in the same order,
\* whatever order the backend is free to take, in both backends.
C22_ListOrderStable ==
    last.op = "List" =>
       /\ last.memErr = OK =>
            \A order \in Orders(DOMAIN mem.configs) :
               LET again == MemList(mem, last.arg.filters, last.arg.pagination, order)
               IN /\ again.err = OK
                  /\ [i \in 1..Len(again.ret[1]) |-> mem.heap[again.ret[1][i]]]
                       = last.memRet[1]
       /\ last.pgErr = OK =>
            \A order \in {o \in Orders(DOMAIN pg.configs) : PgOrderAllowed(pg, o)} :
               LET again == PgList(pg, last.arg.filters, last.arg.pagination, order)
               IN again.err = OK /\ again.ret[1] = last.pgRet[1]

\* C23: in every state each stored config carries the id it is stored
\* under, and so does the data of every snapshot of its history, in both
\* backends.
C23_IdImmutable ==
    /\ \A id \in DOMAIN mem.configs :
          /\ MemConfig(mem, id).Id = id
          /\ id \in DOMAIN mem.versions
          /\ \A i \in 1..Len(mem.versions[id]) : MemHistory(mem, id)[i].Data.Id = id
    /\ \A id \in DOMAIN pg.configs :
          /\ pg.configs[id].id = id
          /\ PgConfig(pg, id).Id = id
          /\ \A i \in 1..Len(PgHistory(pg, id)) : PgHistory(pg, id)[i].Data.Id = id

\* A config that was created, updated and rolled back, in both backends.
C23_Witness ==
    /\ last.op = "RollbackToVersion" /\ last.memErr = OK /\ last.pgErr = OK
    /\ Len(MemHistory(mem, last.id)) = 3 /\ Len(PgHistory(pg, last.id)) = 3
    /\ MemConfig(mem, last.id).Id = last.id

\* C24: in every state every stored config has lastModified >= createdAt,
\* in both backends.
C24_ModifiedNotBeforeCreated ==
    /\ \A id \in DOMAIN mem.configs :
          MemConfig(mem, id).LastModified >= MemConfig(mem, id).CreatedAt
    /\ \A id \in DOMAIN pg.configs :
          PgConfig(pg, id).LastModified >= PgConfig(pg, id).CreatedAt

\* C25: a caller's write to an object that Create, Read, Update,
\* PublishVersion or GetVersionHistory took or returned changes neither what
\* Read returns for any id nor any stored snapshot, in both backends.
C25_Step ==
    last'.op = "CallerWrites" =>
       /\ \A id \in DOMAIN mem.configs :
             /\ MemRead(mem', id).err = OK
             /\ mem'.heap[MemRead(mem', id).ret] = mem.heap[MemRead(mem, id).ret]
             /\ MemHistory(mem', id) = MemHistory(mem, id)
       /\ \A id \in DOMAIN pg.configs :
             /\ PgRead(pg', id) = PgRead(pg, id)
             /\ PgHistory(pg', id) = PgHistory(pg, id)

C25_StoreOwnsRecords == [][C25_Step]_vars

\* C26: in the in-memory backend no snapshot's data is the object of a live
\* config, so that a write to a live config in place reaches no snapshot.
C26_NoSnapshotAliasing ==
    \A id \in DOMAIN mem.versions, k \in DOMAIN mem.configs :
       \A i \in 1..Len(mem.versions[id]) :
          mem.versions[id][i].Data # mem.configs[k]

\* The versions row of config id with the highest number.
NewestVersionRow(db, id) ==
    CHOOSE v \in db.versions :
       v.config_id = id /\ v.version_num = MaxVersionNum(db, id)

\* C27: in every state between the statements of the relational backend,
\* with calls interleaved and after a statement has failed, each configs row
\* has a versions row, and its payload is the payload of its versions row
\* with the highest number unless PublishVersion wrote the row last.
C27_TablesNeverDiverge ==
    \A id \in DOMAIN pg.configs :
       /\ \E v \in pg.versions : v.config_id = id
       /\ audit.lastChange[id] # "PublishVersion" =>
            pg.configs[id].data = NewestVersionRow(pg, id).data

\* C28: with no statement failing, an Update or RollbackToVersion that runs
\* next to other calls returns success with its snapshot stored, or an error
\* without having changed a table; and a Read returns the payload of a
\* versions row of the config unless PublishVersion wrote the row last.
C28_Step ==
    (audit'.faults = 0 /\ audit'.returns = audit.returns + 1) =>
       /\ last'.op \in {"Update", "RollbackToVersion"} =>
            /\ last'.pgErr = OK =>
                 \E v \in pg'.versions :
                    /\ v.config_id = last'.id
                    /\ v.data = Marshal(last'.pgRet[1])
            /\ last'.pgErr # OK => ~last'.arg.wrote
       /\ (/\ last'.op = "Read"
           /\ last'.pgErr = OK
           /\ audit.lastChange[last'.id] # "PublishVersion") =>
            \E v \in pg.versions :
               /\ v.config_id = last'.id
               /\ Unmarshal(v.data) = last'.pgRet[1]

C28_AllOrNothing == [][C28_Step]_vars

\* What the readers of a MemoryStore can see of it.
View(m) ==
    [configs |-> [id \in DOMAIN m.configs |-> MemConfig(m, id)],
     versions |-> [id \in DOMAIN m.versions |-> MemHistory(m, id)]]

\* C29: in the in-memory backend a goroutine that holds the write lock is
\* the only one that holds the mutex; every call returns what it returns
\* when the calls are made one after the other in the order in which they
\* took the mutex; and whenever no write is under way the store is the one
\* those calls leave.
C29_Step ==
    /\ \A g, h \in Goroutines :
          (g # h /\ calls'[g].pc = "locked") => calls'[h].pc \notin {"locked", "rlocked"}
    /\ audit'.returns = audit.returns + 1 =>
          /\ last'.memErr = last'.arg.err
          /\ last'.memRet = last'.arg.ret
    /\ (\A g \in Goroutines : calls'[g].pc # "locked") =>
          View(mem') = View(audit'.seq)

C30_AppliedExactlyOnce ==
    /\ \A name \in Units : runner.executed[name] <= 1
    /\ \A name \in Units : name \in runner.schema_migrations <=> runner.applied[name] >= 1
    /\ runner.complete => runner.execInRun = 0 /\ ~runner.tx.open

\* C30, amended: the Up SQL of a unit is committed at most once and is
\* executed again only after a run in which a statement failed; a unit is
\* recorded exactly when its Up SQL was committed; a run that starts with
\* every unit recorded executes nothing.
C30_CommittedExactlyOnce ==
    /\ \A name \in Units : runner.applied[name] <= 1
    /\ \A name \in Units : runner.executed[name] <= 1 + runner.faults
    /\ \A name \in Units : name \in runner.schema_migrations <=> runner.applied[name] >= 1
    /\ runner.complete => runner.execInRun = 0 /\ ~runner.tx.open

\* A run that started with every unit recorded has returned nil on a database
\* on which an earlier run failed after it had executed the Up SQL of a unit.
C30_Witness ==
    /\ runner.pc = "idle" /\ runner.err = OK
    /\ runner.complete
    /\ runner.schema_migrations = Units
    /\ \E name \in Units : runner.executed[name] = 2

\* C31: at every point of every run of Migrate, a unit that is recorded in
\* schema_migrations has every unit of a smaller name recorded too.
C31_AppliedInOrder ==
    \A name \in runner.schema_migrations :
       \A smaller \in Units : smaller < name => smaller \in runner.schema_migrations

\* The first unit is recorded and the Up SQL of the second has been executed
\* in a transaction that is still open.
C31_Witness ==
    /\ runner.schema_migrations = {1}
    /\ runner.pc = "record" /\ names[runner.i] = 2
    /\ runner.tx.up = {2}

\* C32: when the Up SQL of a unit or its INSERT into schema_migrations fails,
\* Migrate returns an error, nothing of the unit stays (no schema effect, no
\* row), the units before it stay recorded, no later unit was executed, and
\* the first transaction a later run opens is for that same unit, with
\* nothing executed before it.
C32_Step ==
    /\ (runner.pc \in {"execUp", "record"} /\ runner'.pc = "idle") =>
          LET k == names[runner.i]
          IN /\ runner'.err # OK
             /\ runner'.tx = NoTx
             /\ runner'.applied = runner.applied
             /\ runner'.schema_migrations = runner.schema_migrations
             /\ k \notin runner'.schema_migrations /\ runner'.applied[k] = 0
             /\ \A name \in Units :
                   /\ name < k => name \in runner'.schema_migrations
                   /\ name > k => runner'.executed[name] = 0
    /\ (runner'.pc = "begin" /\ runner'.failedAt # 0) =>
          /\ names[runner'.i] = runner'.failedAt
          /\ runner'.execInRun = 0

C32_FailedUnitRollsBack == [][C32_Step]_vars

\* The INSERT of the second unit failed after the first unit was committed,
\* and a later run has opened a transaction.
C32_Witness ==
    /\ runner.failedAt = 2 /\ runner.err = MigrateError.record
    /\ runner.schema_migrations = {1}
    /\ runner.pc = "execUp" /\ runner.executed[2] = 1

\* C33: when Migrate has returned an error, run() returns an error and the
\* process ends holding no store and having served nothing, with the
\* fallback flag set or not; a process that reached the database gets
\* ready, and serves, only with the relational backend and only after its
\* own Migrate returned nil with every unit recorded.
C33_Step ==
    /\ (boot.pc = "migrating" /\ runner.pc = "idle" /\ runner.err # OK) =>
          /\ boot'.pc = "exited"
          /\ boot'.err # OK
          /\ boot'.store = "none"
          /\ boot'.served = 0
    /\ (boot'.ping = "ok" /\ (boot'.pc \in {"ready", "serving"} \/ boot'.served > 0)) =>
          /\ boot'.store = "postgres"
          /\ runner'.err = OK
          /\ Units \subseteq runner'.schema_migrations

C33_FailedMigrationIsFatal == [][C33_Step]_vars

\* A process whose fallback flag is set has ended on a failed migration.
C33_Witness ==
    /\ boot.pc = "exited" /\ boot.err = ErrMigrations
    /\ boot.useFallback
    /\ runner.err # OK

\* C34: a process that is ready or serving holds the in-memory backend
\* exactly when its connection string is empty or "memory", or the database
\* was out of reach at startup and the fallback flag is set; when the
\* database is out of reach and the flag is unset, run() fails; and a
\* serving process keeps the store it started with, every call going to
\* that store, the calls that find the database out of reach included.
C34_Step ==
    /\ boot'.pc \in {"ready", "serving"} =>
          /\ boot'.store \in {"memory", "postgres"}
          /\ boot'.store = "memory" <=>
                \/ boot'.url \in MemoryURLs
                \/ boot'.ping = "failed" /\ boot'.useFallback
    /\ (boot.pc = "storage" /\ boot'.ping = "failed") =>
          IF boot.useFallback
          THEN boot'.pc = "ready" /\ boot'.store = "memory"
          ELSE boot'.pc = "exited" /\ boot'.err = ErrConnect /\ boot'.store = "none"
    /\ (boot.pc = "serving" /\ boot'.boots = boot.boots) =>
          /\ boot'.store = boot.store
          /\ boot'.served > boot.served => boot'.lastCall.store = boot.store

C34_BackendChosenAtBoot == [][C34_Step]_vars

\* A process with the fallback flag set that chose the relational backend
\* has answered a call with an error because the database was out of reach.
C34_Witness ==
    /\ boot.pc = "serving" /\ boot.useFallback
    /\ boot.store = "postgres"
    /\ boot.lastCall = [err |-> ErrUnavailable, store |-> "postgres"]

\* C35: in the relational backend the is_locked column of every configs row
\* equals the isLocked field of the payload stored in the row.
C35_LockColumnMatchesPayload ==
    \A id \in DOMAIN pg.configs :
       pg.configs[id].is_locked = PgConfig(pg, id).IsLocked

\* C36: no Update, RollbackToVersion or Clone leaves locked a stored config
\* that was unlocked before the call, in either backend.
C36_Step ==
    last'.op \in {"Update", "RollbackToVersion", "Clone"} =>
       /\ \A id \in DOMAIN mem.configs \cap DOMAIN mem'.configs :
             ~MemConfig(mem, id).IsLocked => ~MemConfig(mem', id).IsLocked
       /\ \A id \in DOMAIN pg.configs \cap DOMAIN pg'.configs :
             ~PgConfig(pg, id).IsLocked => ~PgConfig(pg', id).IsLocked

C36_LockedOnlyByPublish == [][C36_Step]_vars

\* C37: in the in-memory backend the ids with a current config are the ids
\* with a version history, and every history is non-empty.
C37_ConfigsHaveHistories ==
    /\ DOMAIN mem.configs = DOMAIN mem.versions
    /\ \A id \in DOMAIN mem.versions : Len(mem.versions[id]) > 0

C37_Witness ==
    /\ last.op = "Delete"
    /\ last.memErr = OK
    /\ DOMAIN mem.configs # {}
    /\ C37_ConfigsHaveHistories

Abs(n) == IF n < 0 THEN -n ELSE n

\* The page size List works with: DefaultPageSize stands in for 0.
EffectivePageSize(pagination) ==
    IF pagination.PageSize = 0 THEN DefaultPageSize ELSE pagination.PageSize

\* C38: for every int32 Page and PageSize, also when (Page-1)*PageSize
\* overflows, List returns normally: no slice-bounds panic and no failed
\* query, at most |PageSize| items, and without filters the number of stored
\* configs as total, in both backends.
C38_ListReturnsNormally ==
    last.op = "List" =>
       LET sz == Abs(EffectivePageSize(last.arg.pagination))
       IN /\ last.memErr # PanicSliceBounds
          /\ last.pgErr # ErrListFailed
          /\ last.memErr = OK => Len(last.memRet[1]) <= sz
          /\ last.pgErr = OK => Len(last.pgRet[1]) <= sz
          /\ last.arg.filters = NoFilters =>
                /\ last.memErr = OK
                /\ last.memRet[2] = Cardinality(DOMAIN mem.configs)
                /\ last.pgErr = OK
                /\ last.pgRet[2] = Cardinality(DOMAIN pg.configs)

\* C39: when two processes run Migrate at once on one database, the Up SQL
\* of each unit takes effect once, each unit is recorded once, and both runs
\* return without error.
C39_ConcurrentMigrate ==
    /\ \A name \in Units : runner.applied[name] <= 1
    /\ (/\ runner.runs > 0
        /\ runner.pc = "idle"
        /\ runner.peer.pc = "idle") =>
          /\ runner.err = OK
          /\ runner.peer.err = OK
          /\ \A name \in Units :
                runner.applied[name] = 1 /\ name \in runner.schema_migrations

====
